---- MODULE Spec2Model ----
(***************************************************************************)
(* cookie-lab-pipeline: the tabular report sink (excel_writer.py) and the  *)
(* manual runners that feed it (runner_chromium_manual.py,                 *)
(* runner_firefox_manual.py).                                              *)
(*                                                                         *)
(* The output workbook out_xlsx is a file holding named sheets; a sheet is *)
(* a header (ordered column names) and rows aligned to it.  Every append   *)
(* re-reads the sheets, rebuilds all of them in memory and replaces the    *)
(* file through a temporary file.                                          *)
(***************************************************************************)
EXTENDS Integers, Sequences, FiniteSets, TLC

(***************************************************************************)
(* Program constants                                                       *)
(***************************************************************************)
MAX_RETRIES == 8
\* SLEEP_SECONDS = 0.75 s, counted in units of 0.75/128 s so that the
\* seven "delay *= 1.5" of one _retry_write stay integral.
SLEEP_UNITS == 128

CFC == "Cookie Field Comparison"
CLEAN == "Clean_Data"
DIAG == "Diagnostics"
Sheets == {CFC, CLEAN, DIAG}

\* pandas' missing value: what reindex() fills in and what read_excel
\* returns for an empty cell.
NaN == "<NaN>"

(***************************************************************************)
(* Bounds of the model                                                     *)
(***************************************************************************)
MaxJobs == 2          \* jobs one process runs
MaxCookies == 2       \* cookies in one snapshot
MaxTicks == 2         \* window_sec, in sleeps of the observer
MaxEvents == 2        \* tabs opened, navigations and reloads during one observation
MaxFaults == 1        \* faults of the environment: attempts in which a read
                      \* of out_xlsx raises, attempts in which writing the
                      \* temporary file raises, times another program opens
                      \* out_xlsx

Procs == {1, 2}

(***************************************************************************)
(* Sequences, dicts and DataFrames                                         *)
(***************************************************************************)
Range(s) == {s[k] : k \in DOMAIN s}

\* list(dict.fromkeys(s)): first occurrences, in order
RECURSIVE FromKeysFrom(_, _)
FromKeysFrom(seen, s) ==
  IF s = <<>> THEN seen
  ELSE FromKeysFrom(IF Head(s) \in Range(seen) THEN seen ELSE Append(seen, Head(s)),
                    Tail(s))
FromKeys(s) == FromKeysFrom(<<>>, s)

\* A Python dict is a sequence of <<key, value>> with distinct keys
\* (insertion order).
DictKeys(d) == [k \in DOMAIN d |-> d[k][1]]
DictHas(d, key) == \E k \in DOMAIN d : d[k][1] = key
DictGet(d, key, dflt) ==
  IF DictHas(d, key) THEN d[CHOOSE k \in DOMAIN d : d[k][1] = key][2] ELSE dflt

RECURSIVE AllKeys(_)
AllKeys(rows) ==
  IF rows = <<>> THEN <<>> ELSE DictKeys(Head(rows)) \o AllKeys(Tail(rows))

\* pd.DataFrame(list of dicts): columns in order of first appearance, a
\* key a row lacks is NaN.
DataFrame(rows) ==
  LET cols == FromKeys(AllKeys(rows))
  IN [hdr |-> cols,
      rows |-> [r \in DOMAIN rows |->
                  [c \in Range(cols) |-> DictGet(rows[r], c, NaN)]]]

EmptyFrame(cols) == [hdr |-> cols, rows |-> <<>>]

\* df.reindex(columns=cols)
Reindex(df, cols) ==
  [hdr |-> cols,
   rows |-> [r \in DOMAIN df.rows |->
               [c \in Range(cols) |->
                  IF c \in Range(df.hdr) THEN df.rows[r][c] ELSE NaN]]]

\* pd.concat([a, b], ignore_index=True): union of the columns, a's first
Concat(a, b) ==
  LET cols == FromKeys(a.hdr \o b.hdr)
  IN [hdr |-> cols, rows |-> Reindex(a, cols).rows \o Reindex(b, cols).rows]

(***************************************************************************)
(* The file format: df.to_excel writes an empty string as an empty cell,   *)
(* which read_excel(dtype="object") returns as NaN.                        *)
(***************************************************************************)
ToExcelCell(v) == IF v = "" THEN NaN ELSE v

ToExcel(df) ==
  [hdr |-> df.hdr,
   rows |-> [r \in DOMAIN df.rows |->
               [c \in Range(df.hdr) |-> ToExcelCell(df.rows[r][c])]]]

NoFile == [exists |-> FALSE, sheets |-> <<>>]

\* the workbook pd.ExcelWriter produces from df_map
Workbook(df_map) ==
  [exists |-> TRUE, sheets |-> [s \in DOMAIN df_map |-> ToExcel(df_map[s])]]

\* pd.read_excel(out_xlsx, sheet_name=s) returns a frame or raises: a sheet
\* the file lacks raises ValueError; rf is the set of sheets whose read
\* raises for another reason (I/O error, sharing violation).
ReadOk(file, s, rf) == file.exists /\ s \in DOMAIN file.sheets /\ s \notin rf
ReadExcel(file, s) == file.sheets[s]

(***************************************************************************)
(* Strings.  TLC's strings are atoms with concatenation only, so the       *)
(* strings whose characters the runners look at (cookie names, target      *)
(* names) are listed with their characters.                                *)
(***************************************************************************)
Chars(s) ==
  CASE s = "gclid" -> <<"g", "c", "l", "i", "d">>
    [] s = "GCLID" -> <<"G", "C", "L", "I", "D">>
    [] s = "cjData" -> <<"c", "j", "D", "a", "t", "a">>
    [] s = "cjdata" -> <<"c", "j", "d", "a", "t", "a">>
    [] s = "_ga" -> <<"_", "g", "a">>
    [] s = "_ga_*" -> <<"_", "g", "a", "_", "*">>
    [] s = "_ga_" -> <<"_", "g", "a", "_">>
    [] s = "_ga_A" -> <<"_", "g", "a", "_", "A">>
    [] s = "_ga_a" -> <<"_", "g", "a", "_", "a">>
    [] s = "x" -> <<"x">>
    [] s = "" -> <<>>

Strs == {"gclid", "GCLID", "cjData", "cjdata", "_ga", "_ga_*", "_ga_", "_ga_A",
         "_ga_a", "x", ""}

\* the string with these characters
Str(cs) == CHOOSE s \in Strs : Chars(s) = cs

LowerChar(c) ==
  CASE c = "A" -> "a" [] c = "C" -> "c" [] c = "D" -> "d" [] c = "F" -> "f"
    [] c = "G" -> "g" [] c = "I" -> "i" [] c = "L" -> "l" [] c = "S" -> "s"
    [] OTHER -> c

\* str.lower()
Lower(s) == Str([k \in DOMAIN Chars(s) |-> LowerChar(Chars(s)[k])])

\* str.startswith(), str.endswith("*"), s[:-1]
StartsWith(s, pre_) ==
  /\ Len(Chars(pre_)) <= Len(Chars(s))
  /\ SubSeq(Chars(s), 1, Len(Chars(pre_))) = Chars(pre_)
EndsWithStar(s) == Chars(s) # <<>> /\ Chars(s)[Len(Chars(s))] = "*"
DropLast(s) == Str(SubSeq(Chars(s), 1, Len(Chars(s)) - 1))

\* the characters in code point order, for sorted()
CharOrder == <<"*", "A", "C", "D", "G", "I", "L", "_", "a", "c", "d", "g", "i",
               "j", "l", "t", "x">>
Ord(c) == CHOOSE k \in DOMAIN CharOrder : CharOrder[k] = c

RECURSIVE LexLess(_, _)
LexLess(a, b) ==
  IF b = <<>> THEN FALSE
  ELSE IF a = <<>> THEN TRUE
  ELSE IF Ord(Head(a)) # Ord(Head(b)) THEN Ord(Head(a)) < Ord(Head(b))
  ELSE LexLess(Tail(a), Tail(b))

\* sorted(S, key=lambda x: x.lower()), S a set of names with distinct
\* lower-case forms
RECURSIVE SortedByLower(_)
SortedByLower(S) ==
  IF S = {} THEN <<>>
  ELSE LET m == CHOOSE x \in S :
                  \A y \in S \ {x} : ~LexLess(Chars(Lower(y)), Chars(Lower(x)))
       IN <<m>> \o SortedByLower(S \ {m})

(***************************************************************************)
(* runner_*_manual.py: classification and snapshots                        *)
(***************************************************************************)
\* Python's None, where a string is expected
None == "<None>"

\* the entries of TARGET_ORDER the model keeps: an exact name, an exact
\* name with capitals, an exact name that is a prefix of a family, a family
TARGET_ORDER == <<"cjData", "gclid", "_ga", "_ga_*">>

CanonNames == {n \in Range(TARGET_ORDER) : ~EndsWithStar(n)}
\* _CANON: lower-case name -> configured name
CANON == [ln \in {Lower(n) : n \in CanonNames} |->
            CHOOSE n \in CanonNames : Lower(n) = ln]
\* _PREFIXES
PREFIXES ==
  LET IsFamily(n) == EndsWithStar(n)
      fam == SelectSeq(TARGET_ORDER, IsFamily)
  IN [k \in DOMAIN fam |-> Lower(DropLast(fam[k]))]

\* a classification that gives the members of a family the family's name
IsTargetName_Family(n) ==
  IF n = None \/ n = "" THEN None
  ELSE IF Lower(n) \in DOMAIN CANON THEN CANON[Lower(n)]
  ELSE IF \E k \in DOMAIN PREFIXES : StartsWith(Lower(n), PREFIXES[k])
       THEN PREFIXES[CHOOSE k \in DOMAIN PREFIXES : StartsWith(Lower(n), PREFIXES[k])]
  ELSE None

\* _is_target_name
IsTargetName(n) ==
  IF n = None \/ n = "" THEN None
  ELSE IF Lower(n) \in DOMAIN CANON THEN CANON[Lower(n)]
  ELSE IF \E k \in DOMAIN PREFIXES : StartsWith(Lower(n), PREFIXES[k]) THEN n
  ELSE None

\* _h: the first 16 hex digits of SHA-256, taken to be injective on the
\* values of the model
H(v) == "#" \o v

\* _cookie_frame_full
CookieFrameFull(c) ==
  [name |-> c.name, value |-> c.value, value_hash |-> H(c.value),
   domain |-> c.domain, path |-> c.path]

\* _snapshot_targets: a later cookie of the same canonical key overwrites
\* an earlier one
SnapshotTargets(cookies) ==
  LET keys == {IsTargetName(cookies[k].name) : k \in DOMAIN cookies} \ {None}
  IN [ck \in keys |->
        LET last == CHOOSE k \in DOMAIN cookies :
                      /\ IsTargetName(cookies[k].name) = ck
                      /\ \A m \in DOMAIN cookies :
                           IsTargetName(cookies[m].name) = ck => m <= k
        IN [value |-> cookies[last].value, hash |-> H(cookies[last].value)]]

\* _sanitize_cookie_name, _before_key, _after_key (for names without
\* white space that do not start with "Cookie:")
SanitizeCookieName(name) == IF name = None THEN "Cookie:UNKNOWN" ELSE "Cookie:" \o name
BeforeKey(name) == SanitizeCookieName(name) \o " (Before)"
AfterKey(name) == SanitizeCookieName(name) \o " (After)"

\* d[key] = v on a dict
DictSet(d, key, v) ==
  IF DictHas(d, key)
  THEN [k \in DOMAIN d |-> IF d[k][1] = key THEN <<key, v>> ELSE d[k]]
  ELSE Append(d, <<key, v>>)

(***************************************************************************)
(* runner_*_manual.py: goto_comparison_and_write, the records of a job     *)
(***************************************************************************)
\* key(c)
Key(c) == <<c.name, c.domain, c.path>>
\* bmap, amap: {key(c): c for c in cookies}, a later record of an identity
\* replaces an earlier one
CookieMap(cookies) ==
  [k \in {Key(cookies[n]) : n \in DOMAIN cookies} |->
     cookies[CHOOSE n \in DOMAIN cookies :
               /\ Key(cookies[n]) = k
               /\ \A m \in DOMAIN cookies : Key(cookies[m]) = k => m <= n]]

\* added
AddedKeys(before, after) == DOMAIN CookieMap(after) \ DOMAIN CookieMap(before)
RemovedKeys(before, after) == DOMAIN CookieMap(before) \ DOMAIN CookieMap(after)
\* a comparison that takes every identity present on both sides as changed
ChangedKeys_Both(before, after) ==
  DOMAIN CookieMap(after) \cap DOMAIN CookieMap(before)

\* changed
ChangedKeys(before, after) ==
  {k \in DOMAIN CookieMap(after) \cap DOMAIN CookieMap(before) :
     CookieMap(after)[k].value_hash # CookieMap(before)[k].value_hash}

\* changed_names
ChangedNames(before, after) ==
  {CookieMap(after)[k].name :
     k \in AddedKeys(before, after) \cup ChangedKeys(before, after)}
  \cup {CookieMap(before)[k].name : k \in RemovedKeys(before, after)}

\* prefix
Prefix(ordinal) == IF ordinal # 0 THEN ToString(ordinal) \o "." ELSE ""

\* val_before, val_after
Val(targets, prefix, name) ==
  IF name \in DOMAIN targets THEN prefix \o targets[name].value ELSE ""

\* [c["value"] for c in cookies if c["name"] == name], then
\* (prefix + vals[0]) if vals else ""
FirstVal(cookies, prefix, name) ==
  LET Named(c) == c.name = name
      vals == SelectSeq(cookies, Named)
  IN IF vals # <<>> THEN prefix \o vals[1].value ELSE ""

RECURSIVE SetAll(_, _)
SetAll(d, kvs) ==
  IF kvs = <<>> THEN d
  ELSE SetAll(DictSet(d, Head(kvs)[1], Head(kvs)[2]), Tail(kvs))

\* "; ".join(xs)
RECURSIVE Join(_)
Join(xs) ==
  IF xs = <<>> THEN ""
  ELSE IF Len(xs) = 1 THEN xs[1]
  ELSE xs[1] \o "; " \o Join(Tail(xs))

TargetKeys(before, after) ==
  SortedByLower(DOMAIN SnapshotTargets(before) \cup DOMAIN SnapshotTargets(after))

\* the job dict made by run_pipeline; each job of the model has a link of
\* its own
Job(id, runner, ordinal) ==
  [job_id |-> id, affiliate_link |-> id, extension_name |-> "ext",
   extension_version |-> "1.0", extension_ordinal |-> ordinal,
   browser |-> IF runner = "firefox" THEN "Firefox" ELSE "chrome",
   privacy_name |-> "standard"]

\* the wide dict
WideRow(runner, job, before, after) ==
  LET prefix == Prefix(job.extension_ordinal)
      bt == SnapshotTargets(before)
      at == SnapshotTargets(after)
      meta == IF runner = "firefox"
              THEN << <<"Plugin", job.extension_name>>, <<"Browser", "Firefox">>,
                      <<"Browser Version", "1.0">>, <<"Website", "shop.example">>,
                      <<"Affiliate Link", job.affiliate_link>> >>
              ELSE << <<"Plugin", job.extension_name>>, <<"Browser", job.browser>>,
                      <<"Browser Privacy Level", job.privacy_name>>,
                      <<"Browser Version", "1.0">>, <<"Website", "shop.example">>,
                      <<"Affiliate Link", job.affiliate_link>> >>
      ks == TargetKeys(before, after)
      tcols == [j \in 1..(2 * Len(ks)) |->
                  LET ck == ks[(j + 1) \div 2]
                  IN IF j % 2 = 1 THEN <<ck \o " (Before)", Val(bt, prefix, ck)>>
                     ELSE <<ck \o " (After)", Val(at, prefix, ck)>>]
      IsOther(name) == IsTargetName(name) = None
      ns == SelectSeq(SortedByLower(ChangedNames(before, after)), IsOther)
      ocols == [j \in 1..(2 * Len(ns)) |->
                  LET name == ns[(j + 1) \div 2]
                  IN IF j % 2 = 1
                     THEN <<BeforeKey(name), FirstVal(before, prefix, name)>>
                     ELSE <<AfterKey(name), FirstVal(after, prefix, name)>>]
  IN SetAll(SetAll(meta, tcols), ocols)

\* the clean_row dict
SummaryRow(job, before, after, tabs, redirect_url_final, refreshed_, popup) ==
  LET HasUrl(t) == t.url # ""
      HasTitle(t) == t.title # ""
      urls == SelectSeq(tabs, HasUrl)
      titles == SelectSeq(tabs, HasTitle)
  IN << <<"Timestamp", "ts">>, <<"Test ID", job.job_id>>,
        <<"Browser", job.browser>>,
        <<"Browser Privacy Level", job.privacy_name>>,
        <<"Browser Version", "1.0">>, <<"Extension", job.extension_name>>,
        <<"Extension Version", job.extension_version>>,
        <<"Merchant", "shop.example">>,
        <<"Affiliate Link", job.affiliate_link>>, <<"Coupon Applied?", "">>,
        <<"Extension Popup Seen?", popup>>,
        <<"New Pages Opened", ToString(Len(tabs))>>,
        <<"Cookies Added (count)", ToString(Cardinality(AddedKeys(before, after)))>>,
        <<"Cookies Changed (count)", ToString(Cardinality(ChangedKeys(before, after)))>>,
        <<"Redirect URL", redirect_url_final>>,
        <<"Refreshed?", IF refreshed_ THEN "Yes" ELSE "No">>,
        <<"New Tab URLs", Join([k \in DOMAIN urls |-> urls[k].url])>>,
        <<"New Tab Titles", Join([k \in DOMAIN titles |-> titles[k].title])>>,
        <<"HAR Path", "">>, <<"Screenshots", "">>, <<"Status", "SUCCESS">>,
        <<"Failure Reason", "">>,
        <<"Notes", "CookieComparisonRow=1; Tabs=" \o ToString(Len(tabs))>>,
        <<"Redirect Window (s)", "6.0">> >>

\* one row of diag_rows
DiagRecord(job, name, change, before_hash, after_hash) ==
  << <<"Test ID", job.job_id>>, <<"Browser", job.browser>>,
     <<"Browser Version", "1.0">>, <<"Extension", job.extension_name>>,
     <<"Extension Version", job.extension_version>>,
     <<"Merchant", "shop.example">>, <<"Affiliate Link", job.affiliate_link>>,
     <<"Cookie Name", name>>, <<"Change", change>>,
     <<"Before Hash", before_hash>>, <<"After Hash", after_hash>>,
     <<"Observed At", "ts">> >>

\* b_hash / a_hash of a target key; None where the runner finds no cookie.
\* Chromium looks for a cookie whose name is the key, Firefox looks the key
\* up in the target snapshot.
TargetHash(runner, cookies, ck) ==
  IF runner = "firefox"
  THEN IF ck \in DOMAIN SnapshotTargets(cookies)
       THEN SnapshotTargets(cookies)[ck].hash ELSE None
  ELSE LET Named(c) == c.name = ck
           found == SelectSeq(cookies, Named)
       IN IF found # <<>> THEN found[1].value_hash ELSE None

TargetChange(b_hash, a_hash) ==
  IF b_hash # None /\ a_hash = None THEN "REMOVED"
  ELSE IF a_hash # None /\ b_hash = None THEN "ADDED"
  ELSE IF b_hash # None /\ a_hash # None /\ b_hash # a_hash THEN "CHANGED"
  ELSE "UNCHANGED"

\* diag_rows
DiagRows(runner, job, before, after, tabs) ==
  LET ks == TargetKeys(before, after)
      Moved(ck) == TargetChange(TargetHash(runner, before, ck),
                                TargetHash(runner, after, ck)) # "UNCHANGED"
      moved == SelectSeq(ks, Moved)
      Shown(h) == IF h = None THEN "" ELSE h
  IN [k \in DOMAIN moved |->
        LET b_hash == TargetHash(runner, before, moved[k])
            a_hash == TargetHash(runner, after, moved[k])
        IN DiagRecord(job, moved[k], TargetChange(b_hash, a_hash),
                      Shown(b_hash), Shown(a_hash))]
     \o [k \in DOMAIN tabs |->
           DiagRecord(job, "(new_tab)", tabs[k].title, "", tabs[k].url)]

(***************************************************************************)
(* State                                                                   *)
(***************************************************************************)
VARIABLES
  wb,          \* the file out_xlsx
  locked,      \* another program holds out_xlsx open (replacing it raises
               \* PermissionError)
  src_cols,    \* header of the Clean_Data sheet of src_xlsx (the template)
  pc,          \* per process: where it is
  job_no,      \* per process: jobs started
  wide,        \* per process: goto_comparison_and_write's wide row
  clean_row,   \* per process: its summary row
  diag_rows,   \* per process: its diagnostics rows
  fn,          \* per process: the append function being run
  i,           \* per process: _retry_write's loop variable
  delay,       \* per process: _retry_write's delay
  sheets,      \* per process: write()'s df_map
  tmp,         \* per process: the temporary file of _atomic_write
  exc,         \* per process: the exception in flight
  pre,         \* per process: out_xlsx as it was when the append was called
  acked,       \* per sheet: the rows of the appends that returned, as written
  faults,      \* faults of the environment so far
  job,         \* per process: run_one's job
  ans,         \* per process: the operator's answer at the checkout prompt
  before_coupon_cookies,   \* per process: run_one's Before snapshot
  after_coupon_cookies,    \* per process: run_one's After snapshot
  popup_seen,  \* per process
  new_tabs,    \* per process
  redirect_url,            \* per process
  refreshed,   \* per process
  observed,    \* per process: _observe_redirect_refresh_and_tabs was called
  errors,      \* per process: the jobs run_pipeline reported as failed
  drv,         \* the browser as the driver shows it: windows, focus, URLs,
               \* navigation counts
  obs_arg,         \* the arguments of _observe_redirect_refresh_and_tabs
  obs,         \* its local variables
  obs_pc,      \* where it is
  hist,        \* what it has read and recorded so far
  events,      \* things that happened in the browser since the call
  call,        \* a function of the runners called on its own: name and inputs
  ret,         \* its result
  args,        \* run_pipeline: the arguments of the run
  rp,          \* run_pipeline: its local variables and where it is
  ran          \* run_pipeline: the jobs handed to a runner so far

run_vars == <<job, ans, before_coupon_cookies, after_coupon_cookies, popup_seen,
              new_tabs, redirect_url, refreshed, observed>>

obs_vars == <<drv, obs_arg, obs, obs_pc, hist, events>>
fun_vars == <<call, ret>>
mat_vars == <<args, rp, ran>>

\* the variables the sink and run_one leave alone
ext_vars == <<errors, obs_vars, fun_vars, mat_vars>>

vars == <<wb, locked, src_cols, pc, job_no, wide, clean_row, diag_rows, fn, i,
          delay, sheets, tmp, exc, pre, acked, faults, run_vars, ext_vars>>

job_vars == <<job_no, wide, clean_row, diag_rows, run_vars>>

(***************************************************************************)
(* The rows a job hands to the sink (inputs)                               *)
(***************************************************************************)
JobId(p, n) == "job-" \o ToString(p) \o "-" \o ToString(n)

\* run_one's job before a job is picked
NoJob == Job("", "chromium", 0)
Runner(j) == IF j.browser = "Firefox" THEN "firefox" ELSE "chromium"
Runners == {"chromium", "firefox"}
\* extension_ordinal: absent (0) or the extension's place in the matrix
Ordinals == {0, 2}

\* what driver.get_cookies() can return: cookies of the same identity with
\* different values, a target name in another case, a cookie that is no
\* target, with an empty value and on another path
RawCookie(n, v, pth) == [name |-> n, value |-> v, domain |-> "shop.example", path |-> pth]
CookieJar == { RawCookie("gclid", "v1", "/"), RawCookie("gclid", "v2", "/"),
               RawCookie("GCLID", "v1", "/"), RawCookie("x", "v1", "/"),
               RawCookie("x", "", "/a") }
Snapshots == UNION {[1..n -> CookieJar] : n \in 0..MaxCookies}

\* what _observe_redirect_refresh_and_tabs can return: nothing seen, or a
\* new tab whose URL is the redirect
ObserverResults ==
  { [redirect_url |-> "", refreshed |-> FALSE, new_tabs |-> <<>>],
    [redirect_url |-> "https://t.example/", refreshed |-> FALSE,
     new_tabs |-> << [title |-> "T", url |-> "https://t.example/"] >>] }

\* a skip branch that takes After to be empty
SkipAfter_Empty(before) == <<>>

\* the skip branch: after_coupon_cookies = before_coupon_cookies
SkipAfter(before) == before

DiagRow(id, name, change) ==
  << <<"Test ID", id>>, <<"Cookie Name", name>>, <<"Change", change>> >>

CleanRow(id, notes) ==
  << <<"Test ID", id>>, <<"Status", "SUCCESS">>, <<"Notes", notes>> >>

\* a job with no target cookie, one with a target cookie added, and one
\* with two target cookies and a new tab
JobRows(id) ==
  { [wide |-> << <<"Affiliate Link", id>> >>,
     clean_row |-> CleanRow(id, ""),
     diag_rows |-> <<>>],
    [wide |-> << <<"Affiliate Link", id>>, <<"gclid (After)", "v">> >>,
     clean_row |-> CleanRow(id, "Tabs=0"),
     diag_rows |-> << DiagRow(id, "gclid", "ADDED") >>],
    [wide |-> << <<"Affiliate Link", id>>, <<"_ga (After)", "">>,
                 <<"gclid (After)", "w">> >>,
     clean_row |-> CleanRow(id, "Tabs=1"),
     diag_rows |-> << DiagRow(id, "gclid", "CHANGED"),
                      DiagRow(id, "(new_tab)", "title")
                        \o << <<"After Hash", "url">> >> >>] }

SrcHeaders ==
  { <<"Test ID", "Status">>, <<"Test ID", "Status", "Notes", "Screenshots">> }

(***************************************************************************)
(* excel_writer.py: the write() closures.  file is out_xlsx as read, rf    *)
(* the sheets whose read raises.                                           *)
(***************************************************************************)
\* the "keep X if present" blocks: a sheet is carried over when its read
\* returns, and left out when it raises
Kept(file, keep, rf) == {s \in keep : ReadOk(file, s, rf)}

DfMap(file, target, df, rf) ==
  [s \in {target} \cup Kept(file, Sheets \ {target}, rf) |->
     IF s = target THEN df ELSE ReadExcel(file, s)]

\* append_clean_data_row: the row is laid out on the template's columns
Ordered(cols, row) == [c \in Range(cols) |-> DictGet(row, c, "")]
NewRowDf(cols, row) == [hdr |-> cols, rows |-> << Ordered(cols, row) >>]

CleanWrite(cols, row, file, rf) ==
  LET new_row_df == NewRowDf(cols, row)
      existing == IF ReadOk(file, CLEAN, rf) THEN ReadExcel(file, CLEAN)
                  ELSE EmptyFrame(cols)
      df == IF file.exists THEN Concat(existing, new_row_df) ELSE new_row_df
  IN DfMap(file, CLEAN, df, rf)

\* append_diagnostics
DiagWrite(rows, file, rf) ==
  LET df_new == DataFrame(rows)
      df == IF ReadOk(file, DIAG, rf)
            THEN Concat(ReadExcel(file, DIAG), df_new) ELSE df_new
  IN DfMap(file, DIAG, df, rf)

\* append_cookie_comparison
CmpWrite(row, file, rf) ==
  LET df_new == DataFrame(<<row>>)
      existing == ReadExcel(file, CFC)
      all_cols == FromKeys(existing.hdr \o df_new.hdr)
      df == IF ReadOk(file, CFC, rf)
            THEN Concat(Reindex(existing, all_cols), Reindex(df_new, all_cols))
            ELSE df_new
  IN DfMap(file, CFC, df, rf)

\* the rows an append adds, as they are on file once it returned
NewRows(p) ==
  CASE fn[p] = CFC -> ToExcel(DataFrame(<<wide[p]>>)).rows
    [] fn[p] = CLEAN -> ToExcel(NewRowDf(src_cols, clean_row[p])).rows
    [] fn[p] = DIAG -> ToExcel(DataFrame(diag_rows[p])).rows

(***************************************************************************)
(* _atomic_write and _retry_write                                          *)
(***************************************************************************)
\* a writer opened on out_xlsx itself instead of the temporary file
ExcelWriterFiles_InPlace(p, content) == [t |-> tmp[p], o |-> content]

\* where pd.ExcelWriter(tmp_path) puts what it writes: into the temporary
\* file, out_xlsx untouched
ExcelWriterFiles(p, content) == [t |-> content, o |-> wb]

\* os.replace(tmp_path, out_xlsx) / shutil.move: out_xlsx becomes the
\* temporary file, which is gone
ReplaceFiles(p) == [t |-> NoFile, o |-> tmp[p]]

\* a loop that falls out of its last iteration instead of raising
RetryOutcome_Swallow(n, e) ==
  CASE e = "none" -> "return"
    [] e = "PermissionError" /\ n < MAX_RETRIES -> "sleep"
    [] e = "PermissionError" /\ n >= MAX_RETRIES -> "return"
    [] OTHER -> "raise"

\* _retry_write after an attempt: what the loop does with its outcome
RetryOutcome(n, e) ==
  CASE e = "none" -> "return"
    [] e = "PermissionError" /\ n < MAX_RETRIES -> "sleep"
    [] e = "PermissionError" /\ n >= MAX_RETRIES -> "raise"
    [] OTHER -> "raise"

\* delay *= 1.5
NextDelay(d) == (d * 3) \div 2

\* every write() fills df_map in this order
SheetOrder == <<CLEAN, DIAG, CFC>>

\* a workbook holding only the first sheets of df_map (the writer failed
\* part-way)
PartialWorkbooks(df_map) ==
  { [exists |-> TRUE,
     sheets |-> [s \in {SheetOrder[k] : k \in 1..n} \cap DOMAIN df_map |->
                   ToExcel(df_map[s])]] : n \in 0..2 }

(***************************************************************************)
(* Actions                                                                 *)
(***************************************************************************)
\* goto_comparison_and_write is entered with the job's three records
StartJob(p) ==
  /\ pc[p] = "idle"
  /\ job_no[p] < MaxJobs
  /\ job_no' = [job_no EXCEPT ![p] = @ + 1]
  /\ \E r \in JobRows(JobId(p, job_no[p] + 1)) :
       /\ wide' = [wide EXCEPT ![p] = r.wide]
       /\ clean_row' = [clean_row EXCEPT ![p] = r.clean_row]
       /\ diag_rows' = [diag_rows EXCEPT ![p] = r.diag_rows]
  /\ pc' = [pc EXCEPT ![p] = "gw_wide"]
  /\ UNCHANGED <<wb, locked, src_cols, fn, i, delay, sheets, tmp, exc, pre,
                 acked, faults, run_vars>>
  /\ UNCHANGED ext_vars

\* the call of an append function, up to the first attempt of _retry_write
CallAppend(p) ==
  /\ pc[p] \in {"gw_wide", "gw_clean", "gw_diag"}
  /\ fn' = [fn EXCEPT ![p] = CASE pc[p] = "gw_wide" -> CFC
                               [] pc[p] = "gw_clean" -> CLEAN
                               [] pc[p] = "gw_diag" -> DIAG]
  /\ i' = [i EXCEPT ![p] = 1]
  /\ delay' = [delay EXCEPT ![p] = SLEEP_UNITS]
  /\ exc' = [exc EXCEPT ![p] = "none"]
  /\ pre' = [pre EXCEPT ![p] = wb]
  /\ pc' = [pc EXCEPT ![p] = "write"]
  /\ UNCHANGED <<wb, locked, src_cols, job_vars, sheets, tmp, acked, faults>>
  /\ UNCHANGED ext_vars

\* write(): read out_xlsx and build df_map
Write(p) ==
  /\ pc[p] = "write"
  /\ \E rf \in SUBSET Sheets :
       /\ rf # {} => faults < MaxFaults /\ wb.exists
       /\ faults' = IF rf # {} THEN faults + 1 ELSE faults
       /\ sheets' = [sheets EXCEPT ![p] =
            CASE fn[p] = CFC -> CmpWrite(wide[p], wb, rf)
              [] fn[p] = CLEAN -> CleanWrite(src_cols, clean_row[p], wb, rf)
              [] fn[p] = DIAG -> DiagWrite(diag_rows[p], wb, rf)]
  /\ exc' = [exc EXCEPT ![p] = "none"]
  /\ pc' = [pc EXCEPT ![p] = "aw_tmp"]
  /\ UNCHANGED <<wb, locked, src_cols, job_vars, fn, i, delay, tmp, pre, acked>>
  /\ UNCHANGED ext_vars

\* _atomic_write: the temporary file is written (or the writer raises)
AwTmp(p) ==
  /\ pc[p] = "aw_tmp"
  /\ \/ LET f == ExcelWriterFiles(p, Workbook(sheets[p]))
        IN /\ tmp' = [tmp EXCEPT ![p] = f.t]
           /\ wb' = f.o
           /\ pc' = [pc EXCEPT ![p] = "aw_replace"]
           /\ UNCHANGED <<exc, faults>>
     \/ /\ faults < MaxFaults
        /\ faults' = faults + 1
        /\ \E part \in PartialWorkbooks(sheets[p]) :
             LET f == ExcelWriterFiles(p, part)
             IN /\ tmp' = [tmp EXCEPT ![p] = f.t]
                /\ wb' = f.o
        /\ pc' = [pc EXCEPT ![p] = "aw_finally"]
        /\ exc' = [exc EXCEPT ![p] = "OSError"]
  /\ UNCHANGED <<locked, src_cols, job_vars, fn, i, delay, sheets, pre, acked>>
  /\ UNCHANGED ext_vars

\* _atomic_write: the temporary file replaces out_xlsx, unless out_xlsx is
\* held open
AwReplace(p) ==
  /\ pc[p] = "aw_replace"
  /\ IF locked
     THEN /\ exc' = [exc EXCEPT ![p] = "PermissionError"]
          /\ UNCHANGED <<wb, tmp>>
     ELSE LET f == ReplaceFiles(p)
          IN /\ wb' = f.o
             /\ tmp' = [tmp EXCEPT ![p] = f.t]
             /\ exc' = exc
  /\ pc' = [pc EXCEPT ![p] = "aw_finally"]
  /\ UNCHANGED <<locked, src_cols, job_vars, fn, i, delay, sheets, pre, acked,
                 faults>>
  /\ UNCHANGED ext_vars

\* _atomic_write's finally: the temporary file is removed if it is there
AwFinally(p) ==
  /\ pc[p] = "aw_finally"
  /\ tmp' = [tmp EXCEPT ![p] = NoFile]
  /\ pc' = [pc EXCEPT ![p] = "rw"]
  /\ UNCHANGED <<wb, locked, src_cols, job_vars, fn, i, delay, sheets, exc, pre,
                 acked, faults>>
  /\ UNCHANGED ext_vars

\* _retry_write: the attempt returned
RwReturn(p) ==
  /\ pc[p] = "rw"
  /\ RetryOutcome(i[p], exc[p]) = "return"
  /\ acked' = [acked EXCEPT ![fn[p]] = @ \o NewRows(p)]
  /\ pc' = [pc EXCEPT ![p] = "returned"]
  /\ UNCHANGED <<wb, locked, src_cols, job_vars, fn, i, delay, sheets, tmp, exc,
                 pre, faults>>
  /\ UNCHANGED ext_vars

\* _retry_write: PermissionError, sleep and try again
RwSleep(p) ==
  /\ pc[p] = "rw"
  /\ RetryOutcome(i[p], exc[p]) = "sleep"
  /\ i' = [i EXCEPT ![p] = @ + 1]
  /\ delay' = [delay EXCEPT ![p] = NextDelay(@)]
  /\ pc' = [pc EXCEPT ![p] = "write"]
  /\ UNCHANGED <<wb, locked, src_cols, job_vars, fn, sheets, tmp, exc, pre, acked,
                 faults>>
  /\ UNCHANGED ext_vars

\* _retry_write: the exception leaves the append function
RwRaise(p) ==
  /\ pc[p] = "rw"
  /\ RetryOutcome(i[p], exc[p]) = "raise"
  /\ pc' = [pc EXCEPT ![p] = "raised"]
  /\ UNCHANGED <<wb, locked, src_cols, job_vars, fn, i, delay, sheets, tmp, exc,
                 pre, acked, faults>>
  /\ UNCHANGED ext_vars

\* the locals of an append function that has returned or raised are gone
(***************************************************************************)
(* run_one of the manual runners                                           *)
(***************************************************************************)
\* pick_runner's choice and the job's extension_ordinal
StartRun(p) ==
  /\ pc[p] = "idle"
  /\ job_no[p] < MaxJobs
  /\ job_no' = [job_no EXCEPT ![p] = @ + 1]
  /\ \E runner \in Runners, ordinal \in Ordinals :
       job' = [job EXCEPT ![p] = Job(JobId(p, job_no[p] + 1), runner, ordinal)]
  /\ pc' = [pc EXCEPT ![p] = "prompt"]
  /\ UNCHANGED <<wb, locked, src_cols, wide, clean_row, diag_rows, fn, i, delay,
                 sheets, tmp, exc, pre, acked, faults, ans,
                 before_coupon_cookies, after_coupon_cookies, popup_seen,
                 new_tabs, redirect_url, refreshed, observed>>
  /\ UNCHANGED ext_vars

\* any other answer at the checkout prompt: keep waiting
AnswerNo(p) ==
  /\ pc[p] = "prompt"
  /\ UNCHANGED vars

\* "y": the Before snapshot is captured (get_cookies may raise, and nothing
\* catches it here), then the popup question is asked
AnswerYes(p) ==
  /\ pc[p] = "prompt"
  /\ ans' = [ans EXCEPT ![p] = "y"]
  /\ \/ /\ \E cookies \in Snapshots :
            before_coupon_cookies' = [before_coupon_cookies EXCEPT ![p] =
               [k \in DOMAIN cookies |-> CookieFrameFull(cookies[k])]]
        /\ pc' = [pc EXCEPT ![p] = "popup"]
        /\ UNCHANGED exc
     \/ /\ exc' = [exc EXCEPT ![p] = "WebDriverException"]
        /\ pc' = [pc EXCEPT ![p] = "raised"]
        /\ UNCHANGED before_coupon_cookies
  /\ UNCHANGED <<wb, locked, src_cols, job_no, wide, clean_row, diag_rows, fn, i,
                 delay, sheets, tmp, pre, acked, faults, job,
                 after_coupon_cookies, popup_seen, new_tabs, redirect_url,
                 refreshed, observed>>
  /\ UNCHANGED ext_vars

\* the operator's answer to the popup question
PopupAnswer(p) ==
  /\ pc[p] = "popup"
  /\ \E q \in {"Yes", "No"} : popup_seen' = [popup_seen EXCEPT ![p] = q]
  /\ pc' = [pc EXCEPT ![p] = "action"]
  /\ UNCHANGED <<wb, locked, src_cols, job_no, wide, clean_row, diag_rows, fn, i,
                 delay, sheets, tmp, exc, pre, acked, faults, job, ans,
                 before_coupon_cookies, after_coupon_cookies, new_tabs,
                 redirect_url, refreshed, observed>>
  /\ UNCHANGED ext_vars

\* the operator presses ENTER; the observer runs and returns
Observe(p) ==
  /\ pc[p] = "action"
  /\ \E r \in ObserverResults :
       /\ redirect_url' = [redirect_url EXCEPT ![p] = r.redirect_url]
       /\ refreshed' = [refreshed EXCEPT ![p] = r.refreshed]
       /\ new_tabs' = [new_tabs EXCEPT ![p] = r.new_tabs]
  /\ observed' = [observed EXCEPT ![p] = TRUE]
  /\ pc' = [pc EXCEPT ![p] = "capture"]
  /\ UNCHANGED <<wb, locked, src_cols, job_no, wide, clean_row, diag_rows, fn, i,
                 delay, sheets, tmp, exc, pre, acked, faults, job, ans,
                 before_coupon_cookies, after_coupon_cookies, popup_seen>>
  /\ UNCHANGED ext_vars

\* the After snapshot is captured (get_cookies may raise, uncaught)
CaptureAfter(p) ==
  /\ pc[p] = "capture"
  /\ \/ /\ \E cookies \in Snapshots :
            after_coupon_cookies' = [after_coupon_cookies EXCEPT ![p] =
               [k \in DOMAIN cookies |-> CookieFrameFull(cookies[k])]]
        /\ pc' = [pc EXCEPT ![p] = "gw_build"]
        /\ UNCHANGED exc
     \/ /\ exc' = [exc EXCEPT ![p] = "WebDriverException"]
        /\ pc' = [pc EXCEPT ![p] = "raised"]
        /\ UNCHANGED after_coupon_cookies
  /\ UNCHANGED <<wb, locked, src_cols, job_no, wide, clean_row, diag_rows, fn, i,
                 delay, sheets, tmp, pre, acked, faults, job, ans,
                 before_coupon_cookies, popup_seen, new_tabs, redirect_url,
                 refreshed, observed>>
  /\ UNCHANGED ext_vars

\* "s": the Before snapshot is captured, or is [] when get_cookies raises;
\* the rest of the skip branch up to the call of goto_comparison_and_write
AnswerSkip(p) ==
  /\ pc[p] = "prompt"
  /\ ans' = [ans EXCEPT ![p] = "s"]
  /\ \E cookies \in Snapshots :
       \E got \in {[k \in DOMAIN cookies |-> CookieFrameFull(cookies[k])], <<>>} :
         /\ before_coupon_cookies' = [before_coupon_cookies EXCEPT ![p] = got]
         /\ after_coupon_cookies' =
              [after_coupon_cookies EXCEPT ![p] = SkipAfter(got)]
  /\ new_tabs' = [new_tabs EXCEPT ![p] = <<>>]
  /\ redirect_url' = [redirect_url EXCEPT ![p] = ""]
  /\ refreshed' = [refreshed EXCEPT ![p] = FALSE]
  /\ popup_seen' = [popup_seen EXCEPT ![p] = "Skipped"]
  /\ pc' = [pc EXCEPT ![p] = "gw_build"]
  /\ UNCHANGED <<wb, locked, src_cols, job_no, wide, clean_row, diag_rows, fn, i,
                 delay, sheets, tmp, exc, pre, acked, faults, job, observed>>
  /\ UNCHANGED ext_vars

\* goto_comparison_and_write builds the job's records
Build(p) ==
  /\ pc[p] = "gw_build"
  /\ wide' = [wide EXCEPT ![p] =
       WideRow(Runner(job[p]), job[p], before_coupon_cookies[p],
               after_coupon_cookies[p])]
  /\ clean_row' = [clean_row EXCEPT ![p] =
       SummaryRow(job[p], before_coupon_cookies[p], after_coupon_cookies[p],
                  new_tabs[p], redirect_url[p], refreshed[p], popup_seen[p])]
  /\ diag_rows' = [diag_rows EXCEPT ![p] =
       DiagRows(Runner(job[p]), job[p], before_coupon_cookies[p],
                after_coupon_cookies[p], new_tabs[p])]
  /\ pc' = [pc EXCEPT ![p] = "gw_wide"]
  /\ UNCHANGED <<wb, locked, src_cols, job_no, fn, i, delay, sheets, tmp, exc,
                 pre, acked, faults, run_vars>>
  /\ UNCHANGED ext_vars

DropLocals(p) ==
  /\ i' = [i EXCEPT ![p] = 1]
  /\ delay' = [delay EXCEPT ![p] = SLEEP_UNITS]
  /\ sheets' = [sheets EXCEPT ![p] = <<>>]
  /\ exc' = [exc EXCEPT ![p] = "none"]
  /\ pre' = [pre EXCEPT ![p] = NoFile]

DropJob(p) ==
  /\ wide' = [wide EXCEPT ![p] = <<>>]
  /\ clean_row' = [clean_row EXCEPT ![p] = <<>>]
  /\ diag_rows' = [diag_rows EXCEPT ![p] = <<>>]
  /\ job' = [job EXCEPT ![p] = NoJob]
  /\ ans' = [ans EXCEPT ![p] = ""]
  /\ before_coupon_cookies' = [before_coupon_cookies EXCEPT ![p] = <<>>]
  /\ after_coupon_cookies' = [after_coupon_cookies EXCEPT ![p] = <<>>]
  /\ popup_seen' = [popup_seen EXCEPT ![p] = ""]
  /\ new_tabs' = [new_tabs EXCEPT ![p] = <<>>]
  /\ redirect_url' = [redirect_url EXCEPT ![p] = ""]
  /\ refreshed' = [refreshed EXCEPT ![p] = FALSE]
  /\ observed' = [observed EXCEPT ![p] = FALSE]

\* goto_comparison_and_write goes on to its next append, or is done
GwNext(p) ==
  /\ pc[p] = "returned"
  /\ pc' = [pc EXCEPT ![p] = CASE fn[p] = CFC -> "gw_clean"
                               [] fn[p] = CLEAN -> "gw_diag"
                               [] fn[p] = DIAG -> "idle"]
  /\ DropLocals(p)
  /\ IF fn[p] = DIAG THEN DropJob(p)
     ELSE UNCHANGED <<wide, clean_row, diag_rows, run_vars>>
  /\ UNCHANGED <<wb, locked, src_cols, job_no, fn, tmp, acked, faults>>
  /\ UNCHANGED ext_vars

\* a run_pipeline that stops at the first failed job
AfterJobError_Abort == "off"

\* run_pipeline's except clause: the loop over the jobs goes on
AfterJobError == "idle"

\* the exception leaves goto_comparison_and_write and run_one; run_pipeline
\* reports it and goes on to the next job
JobFailed(p) ==
  /\ pc[p] = "raised"
  /\ errors' = [errors EXCEPT ![p] = Append(@, JobId(p, job_no[p]))]
  /\ pc' = [pc EXCEPT ![p] = AfterJobError]
  /\ DropLocals(p)
  /\ DropJob(p)
  /\ UNCHANGED <<wb, locked, src_cols, job_no, fn, tmp, acked, faults>>
  /\ UNCHANGED <<obs_vars, fun_vars, mat_vars>>

\* another program (the operator's spreadsheet viewer) opens or closes
\* out_xlsx
ViewerOpen ==
  /\ ~locked /\ wb.exists
  /\ faults < MaxFaults
  /\ faults' = faults + 1
  /\ locked' = TRUE
  /\ UNCHANGED <<wb, src_cols, pc, job_vars, fn, i, delay, sheets, tmp, exc, pre,
                 acked>>
  /\ UNCHANGED ext_vars

ViewerClose ==
  /\ locked
  /\ locked' = FALSE
  /\ UNCHANGED <<wb, src_cols, pc, job_vars, fn, i, delay, sheets, tmp, exc, pre,
                 acked, faults>>
  /\ UNCHANGED ext_vars

(***************************************************************************)
(* _observe_redirect_refresh_and_tabs                                      *)
(***************************************************************************)
Handles == {"w1", "w2", "w3"}
Title(h) == "title of " \o h
\* the value _get_nav_marker reads in a document: one per navigation
Marker(k) == "m" \o ToString(k)

\* handles are opaque: a new window gets the first one not in use
HandleOrder == <<"w1", "w2", "w3">>
NextHandle(windows) ==
  HandleOrder[CHOOSE k \in DOMAIN HandleOrder :
                /\ HandleOrder[k] \notin windows
                /\ \A m \in 1..(k - 1) : HandleOrder[m] \in windows]

\* the checkout page, a page of the affiliate network, the page of a tab the
\* extension opens, the page of a second window that was open before
CartUrl == "https://shop.example/cart"
NavUrls == {CartUrl, "https://aff.example/r"}
TabUrl == "https://tab.example/"
OtherUrl == "https://other.example/"

\* the variables of the pipeline
sink_vars == <<wb, locked, src_cols, pc, job_no, wide, clean_row, diag_rows, fn,
               i, delay, sheets, tmp, exc, pre, acked, faults, run_vars, errors>>
pipe_vars == <<sink_vars, mat_vars>>

\* a driver call about the focused window can return only while that
\* window is open
CanRead(d) == d.focus \in d.windows

\* if curr_url and pre_url and curr_url != pre_url and not redirect_url
RedirectAfterTick(redirect_url_, curr_url, pre_url) ==
  IF curr_url # "" /\ pre_url # "" /\ curr_url # pre_url /\ redirect_url_ = ""
  THEN curr_url ELSE redirect_url_

\* a refresh test that does not look at the URL
RefreshedAfterTick_AnyUrl(refreshed_, redirect_url_, curr_url, pre_url, nav_ts, pre_nav_ts) ==
  IF nav_ts # None /\ pre_nav_ts # None /\ nav_ts # pre_nav_ts
  THEN TRUE ELSE refreshed_

\* if nav_ts is not None and pre_nav_ts is not None and nav_ts != pre_nav_ts:
\*     if (not redirect_url) and (curr_url == pre_url): refreshed = True
RefreshedAfterTick(refreshed_, redirect_url_, curr_url, pre_url, nav_ts, pre_nav_ts) ==
  IF /\ nav_ts # None /\ pre_nav_ts # None /\ nav_ts # pre_nav_ts
     /\ redirect_url_ = "" /\ curr_url = pre_url
  THEN TRUE ELSE refreshed_

\* if not redirect_url and new_tabs: redirect_url = new_tabs[0].get("url","") or ""
FinalRedirect(redirect_url_, tabs) ==
  IF redirect_url_ = "" /\ tabs # <<>> THEN tabs[1].url ELSE redirect_url_

\* an observer whose loop forgets the handles it has recorded
SeenAfter_Forget(seen, h) == seen

\* finally: seen.add(h)
SeenAfter(seen, h) == seen \cup {h}

\* a switch back to the window without a try around it
SwitchBackCaught_Not == FALSE

\* try: driver.switch_to.window(list(pre_handles)[0]) / except Exception: pass
SwitchBackCaught == TRUE

\* the orders in which list(handles - seen) can come out
Orders(S) == {o \in [1..Cardinality(S) -> S] : Range(o) = S}

\* while (time.time() - t0) < window_sec: read the handles and start the
\* loop over the new ones; else leave the loop
ObsWhile ==
  /\ obs_pc = "while"
  /\ IF obs.t < obs_arg.window_sec
     THEN /\ \E ok \in BOOLEAN :
               LET handles == IF ok THEN drv.windows ELSE {}
               IN \E o \in Orders(handles \ obs.seen) :
                    obs' = [obs EXCEPT !.todo = o]
          /\ obs_pc' = "for"
     ELSE /\ obs_pc' = "after"
          /\ UNCHANGED obs
  /\ UNCHANGED <<drv, obs_arg, hist, events, fun_vars, pipe_vars>>

\* the body of for h in list(handles - seen): switch to the new window and
\* record its title and URL; a blank record when one of the calls raises
ObsFor ==
  /\ obs_pc = "for" /\ obs.todo # <<>>
  /\ LET h == Head(obs.todo)
     IN \E outcome \in {"ok", "switch raises", "read raises"} :
          /\ drv' = IF outcome = "switch raises" THEN drv
                    ELSE [drv EXCEPT !.focus = h]
          /\ obs' = [obs EXCEPT
               !.todo = Tail(@),
               !.seen = SeenAfter(@, h),
               !.new_tabs = Append(@, IF outcome = "ok"
                                      THEN [title |-> Title(h), url |-> drv.url[h]]
                                      ELSE [title |-> "", url |-> ""])]
          /\ hist' = [hist EXCEPT !.tab_handles = Append(@, h)]
  /\ UNCHANGED <<obs_arg, obs_pc, events, fun_vars, pipe_vars>>

\* after the for loop: driver.switch_to.window(list(pre_handles)[0]); with
\* no pre-action handle the IndexError is caught like an error of the driver
ObsSwitchBack ==
  /\ obs_pc = "for" /\ obs.todo = <<>>
  /\ \/ /\ obs_arg.pre_handles # {} /\ obs_arg.first \in drv.windows
        /\ drv' = [drv EXCEPT !.focus = obs_arg.first]
        /\ obs_pc' = "read"
     \/ /\ drv' = drv
        /\ obs_pc' = IF SwitchBackCaught THEN "read" ELSE "raised"
  /\ UNCHANGED <<obs_arg, obs, hist, events, fun_vars, pipe_vars>>

\* curr_url and nav_ts are read (each "" / None when the call raises),
\* redirect_url and refreshed are updated, time.sleep(0.2)
ObsRead ==
  /\ obs_pc = "read"
  /\ \E ok_url, ok_nav \in BOOLEAN : \E d \in 1..2 :
       LET curr_url == IF ok_url /\ CanRead(drv) THEN drv.url[drv.focus] ELSE ""
           nav_ts == IF ok_nav /\ CanRead(drv) THEN Marker(drv.nav[drv.focus]) ELSE None
           redirect == RedirectAfterTick(obs.redirect_url, curr_url, obs_arg.pre_url)
           later == IF obs.t + d < obs_arg.window_sec THEN obs.t + d ELSE obs_arg.window_sec
       IN /\ obs' = [obs EXCEPT
               !.redirect_url = redirect,
               !.refreshed = RefreshedAfterTick(@, redirect, curr_url, obs_arg.pre_url,
                                                nav_ts, obs_arg.pre_nav_ts),
               !.t = later]
          /\ hist' = [hist EXCEPT
               !.first_diff = IF @ = "" /\ curr_url # "" /\ curr_url # obs_arg.pre_url
                              THEN curr_url ELSE @,
               !.refresh_tick = @ \/ (/\ nav_ts # None /\ obs_arg.pre_nav_ts # None
                                      /\ nav_ts # obs_arg.pre_nav_ts
                                      /\ curr_url = obs_arg.pre_url
                                      /\ redirect = "")]
  /\ obs_pc' = "while"
  /\ UNCHANGED <<drv, obs_arg, events, fun_vars, pipe_vars>>

\* after the loop: the new-tab fallback of redirect_url, the last switch
\* back, return
ObsAfter ==
  /\ obs_pc = "after"
  /\ obs' = [obs EXCEPT !.redirect_url = FinalRedirect(@, obs.new_tabs)]
  /\ \/ /\ obs_arg.pre_handles # {} /\ obs_arg.first \in drv.windows
        /\ drv' = [drv EXCEPT !.focus = obs_arg.first]
     \/ drv' = drv
  /\ obs_pc' = "done"
  /\ UNCHANGED <<obs_arg, hist, events, fun_vars, pipe_vars>>

\* the extension or the page opens a tab
TabOpens ==
  /\ obs_pc \in {"while", "for", "read"} /\ events < MaxEvents
  /\ \E h \in Handles \ drv.windows :
       /\ h = NextHandle(drv.windows)
       /\ drv' = [drv EXCEPT !.windows = @ \cup {h}, !.url[h] = TabUrl]
  /\ events' = events + 1
  /\ UNCHANGED <<obs_arg, obs, obs_pc, hist, fun_vars, pipe_vars>>

\* a window navigates to another URL: a new document, a new marker
Navigates ==
  /\ obs_pc \in {"while", "for", "read"} /\ events < MaxEvents
  /\ \E h \in drv.windows : \E u \in NavUrls \ {drv.url[h]} :
       drv' = [drv EXCEPT !.url[h] = u, !.nav[h] = @ + 1]
  /\ events' = events + 1
  /\ UNCHANGED <<obs_arg, obs, obs_pc, hist, fun_vars, pipe_vars>>

\* a window reloads its page: the same URL, a new marker
Reloads ==
  /\ obs_pc \in {"while", "for", "read"} /\ events < MaxEvents
  /\ \E h \in drv.windows : drv' = [drv EXCEPT !.nav[h] = @ + 1]
  /\ events' = events + 1
  /\ UNCHANGED <<obs_arg, obs, obs_pc, hist, fun_vars, pipe_vars>>

(***************************************************************************)
(* pipeline.py: run_pipeline's loop over the matrix                        *)
(***************************************************************************)
MaxLinks == 2         \* links of the matrix

\* matrix.yaml: a browser with its own runner, one that is not implemented
\* and two of the Chromium family; privacy levels for Firefox, for one
\* Chromium browser by name and for the fallback bucket; an extension
\* packaged for both families, one packaged for Chromium only, a third
\* one; the links
Matrix ==
  [browsers |-> <<[name |-> "Firefox"], [name |-> "safari"],
                  [name |-> "chrome"], [name |-> "edge"]>>,
   privacy_levels |->
     << <<"firefox", <<[name |-> "default"], [name |-> "strict"]>> >>,
        <<"chrome", <<[name |-> "default"]>> >>,
        <<"chromium", <<[name |-> "default"], [name |-> "strict"]>> >> >>,
   extensions |->
     << [name |-> "A", version |-> "1.0", firefox_path |-> "A.xpi",
         chromium_path |-> "A.crx"],
        [name |-> "d", version |-> "1.0", firefox_path |-> None,
         chromium_path |-> "d.crx"],
        [name |-> "L", version |-> "1.0", firefox_path |-> "L.xpi",
         chromium_path |-> "L.crx"] >>,
   links |-> [k \in 1..MaxLinks |-> "https://link.example/" \o ToString(k)]]

CHROMIUM_FAMILY == {"chrome", "edge", "brave", "opera"}

\* str.lower() of a name of the matrix or of an argument, character by
\* character
NameLower(s) ==
  LET NameChars(n) ==
        CASE n = "A" -> <<"A">>
          [] n = "a" -> <<"a">>
          [] n = "D" -> <<"D">>
          [] n = "d" -> <<"d">>
          [] n = "L" -> <<"L">>
          [] n = "l" -> <<"l">>
          [] n = "x" -> <<"x">>
          [] n = "Firefox" -> <<"F", "i", "r", "e", "f", "o", "x">>
          [] n = "firefox" -> <<"f", "i", "r", "e", "f", "o", "x">>
          [] n = "chrome" -> <<"c", "h", "r", "o", "m", "e">>
          [] n = "safari" -> <<"s", "a", "f", "a", "r", "i">>
          [] n = "edge" -> <<"e", "d", "g", "e">>
          [] n = "default" -> <<"d", "e", "f", "a", "u", "l", "t">>
          [] n = "strict" -> <<"s", "t", "r", "i", "c", "t">>
          [] n = "Strict" -> <<"S", "t", "r", "i", "c", "t">>
      lowered == [k \in DOMAIN NameChars(s) |-> LowerChar(NameChars(s)[k])]
  IN CHOOSE t \in {"A", "a", "D", "d", "L", "l", "x", "Firefox", "firefox",
                   "chrome", "safari", "edge", "default", "strict", "Strict"} :
       NameChars(t) = lowered

\* pick_runner
PickRunner(browser_name) ==
  IF NameLower(browser_name) = "firefox" THEN "firefox"
  ELSE IF NameLower(browser_name) \in CHROMIUM_FAMILY THEN "chromium"
  ELSE None

\* resolve_extension_path
ResolveExtensionPath(ext, browser_name) ==
  IF NameLower(browser_name) = "firefox" THEN ext.firefox_path
  ELSE IF NameLower(browser_name) \in CHROMIUM_FAMILY THEN ext.chromium_path
  ELSE None

\* _privacy_iter: the levels of the browser's bucket, filtered by the
\* requested name
PrivacyIter(m, bname, requested) ==
  LET pl == m.privacy_levels
      dflt == <<[name |-> "default"]>>
      levels == IF NameLower(bname) = "firefox"
                THEN DictGet(pl, "firefox", dflt)
                ELSE DictGet(pl, NameLower(bname), DictGet(pl, "chromium", dflt))
      Asked(lvl) == NameLower(lvl.name) = NameLower(requested)
  IN IF requested # None THEN SelectSeq(levels, Asked) ELSE levels

\* next((i for i, x in enumerate(names) if x.lower() == name.lower()), None)
\* (HasName: the result is not None; IndexOfName: the result)
HasName(items, name) ==
  \E k \in DOMAIN items : NameLower(items[k].name) = NameLower(name)
IndexOfName(items, name) ==
  (CHOOSE k \in DOMAIN items :
     /\ NameLower(items[k].name) = NameLower(name)
     /\ \A m \in 1..(k - 1) : NameLower(items[m].name) # NameLower(name)) - 1

\* the job dict of run_pipeline (names of the matrix have no blanks)
MatrixJob(m, bname, privacy, ei, li, job_no_) ==
  LET ext == m.extensions[ei + 1]
      \* f"{job_no:04d}"
      Pad4(n) == IF n < 10 THEN "000" \o ToString(n)
                 ELSE IF n < 100 THEN "00" \o ToString(n)
                 ELSE IF n < 1000 THEN "0" \o ToString(n)
                 ELSE ToString(n)
  IN [job_id |-> "job-" \o NameLower(bname) \o "-" \o NameLower(ext.name) \o "-"
                   \o privacy \o "-" \o Pad4(job_no_),
      browser |-> bname, extension_name |-> ext.name,
      extension_version |-> ext.version,
      extension_path |-> ResolveExtensionPath(ext, bname),
      affiliate_link |-> m.links[li + 1], extension_ordinal |-> ei + 1,
      privacy_name |-> privacy]

\* e_iter starts at the resume offset in the start browser and at 0
\* elsewhere
EIterStart_Zero(r) == 0
EIterStart(r) == IF r.bi = r.b_start_idx THEN r.e_start_idx ELSE 0

\* if only_extension and ext_name.lower() == only_extension.lower(): return
OnlyExtensionDone_Never(only, ext_name) == FALSE
OnlyExtensionDone(only, ext_name) ==
  only # None /\ NameLower(ext_name) = NameLower(only)

\* the start indexes are worked out, or the run ends with SystemExit
RpStart ==
  /\ rp.pc = "start"
  /\ LET a == args
         b_start_idx == IF a.start_browser # None
                        THEN IndexOfName(Matrix.browsers, a.start_browser)
                        ELSE 0
         e_start_idx == IF a.start_ext # None
                        THEN IndexOfName(Matrix.extensions, a.start_ext)
                        ELSE 0
     IN IF \/ a.start_browser # None
              /\ ~HasName(Matrix.browsers, a.start_browser)
           \/ a.start_ext # None
              /\ ~HasName(Matrix.extensions, a.start_ext)
           \/ a.start_link_idx < 1
           \/ a.start_link_idx > Len(Matrix.links)
        THEN rp' = [rp EXCEPT !.pc = "SystemExit"]
        ELSE rp' = [rp EXCEPT !.pc = "browser", !.b_start_idx = b_start_idx,
                              !.e_start_idx = e_start_idx,
                              !.l_start_idx = a.start_link_idx - 1,
                              !.bi = b_start_idx, !.job_no = 0]
  /\ UNCHANGED <<args, ran, obs_vars, fun_vars, sink_vars>>

\* for bi in range(b_start_idx, len(browsers)): a browser without a runner
\* is skipped; a requested privacy level the browser does not have ends
\* the run
RpBrowser ==
  /\ rp.pc = "browser"
  /\ IF rp.bi >= Len(Matrix.browsers)
     THEN rp' = [rp EXCEPT !.pc = "returned"]
     ELSE LET bname == Matrix.browsers[rp.bi + 1].name
              levels == PrivacyIter(Matrix, bname, args.privacy_name)
          IN IF PickRunner(bname) = None
             THEN rp' = [rp EXCEPT !.bi = @ + 1]
             ELSE IF args.privacy_name # None /\ levels = <<>>
             THEN rp' = [rp EXCEPT !.pc = "SystemExit"]
             ELSE rp' = [rp EXCEPT !.pc = "level", !.levels = levels, !.pl = 0]
  /\ UNCHANGED <<args, ran, obs_vars, fun_vars, sink_vars>>

\* for pl in levels: the extensions start at e_start_idx in the start
\* browser and at 0 elsewhere
RpLevel ==
  /\ rp.pc = "level"
  /\ IF rp.pl >= Len(rp.levels)
     THEN rp' = [rp EXCEPT !.pc = "browser", !.bi = @ + 1]
     ELSE rp' = [rp EXCEPT !.pc = "ext", !.ei = EIterStart(rp)]
  /\ UNCHANGED <<args, ran, obs_vars, fun_vars, sink_vars>>

\* for ei in e_iter: the only_extension filter, the package path, the start
\* of the links; after the last extension e_start_idx = 0, l_start_idx = 0
RpExt ==
  /\ rp.pc = "ext"
  /\ IF rp.ei >= Len(Matrix.extensions)
     THEN rp' = [rp EXCEPT !.pc = "level", !.pl = @ + 1,
                           !.e_start_idx = 0, !.l_start_idx = 0]
     ELSE LET ext == Matrix.extensions[rp.ei + 1]
              bname == Matrix.browsers[rp.bi + 1].name
              only == args.only_extension
          IN IF only # None /\ NameLower(ext.name) # NameLower(only)
             THEN rp' = [rp EXCEPT !.ei = @ + 1]
             ELSE IF ResolveExtensionPath(ext, bname) = None
             THEN rp' = [rp EXCEPT !.ei = @ + 1]
             ELSE rp' = [rp EXCEPT !.pc = "link",
                           !.li = IF rp.bi = rp.b_start_idx
                                     /\ rp.ei = rp.e_start_idx
                                  THEN rp.l_start_idx ELSE 0]
  /\ UNCHANGED <<args, ran, obs_vars, fun_vars, sink_vars>>

\* for li in l_iter: job_no += 1, the job is made and handed to the runner
\* (whether the runner raises makes no difference to the loop); after the
\* last link of the only_extension run_pipeline returns
RpLink ==
  /\ rp.pc = "link"
  /\ IF rp.li >= Len(Matrix.links)
     THEN /\ LET ext == Matrix.extensions[rp.ei + 1]
             IN IF OnlyExtensionDone(args.only_extension, ext.name)
                THEN rp' = [rp EXCEPT !.pc = "returned"]
                ELSE rp' = [rp EXCEPT !.pc = "ext", !.ei = @ + 1]
          /\ ran' = ran
     ELSE /\ rp' = [rp EXCEPT !.job_no = @ + 1, !.li = @ + 1]
          /\ ran' = Append(ran,
               [job |-> MatrixJob(Matrix, Matrix.browsers[rp.bi + 1].name,
                                  rp.levels[rp.pl + 1].name, rp.ei, rp.li,
                                  rp.job_no + 1),
                job_no |-> rp.job_no + 1,
                at |-> <<rp.bi, rp.pl, rp.ei, rp.li>>])
  /\ UNCHANGED <<args, obs_vars, fun_vars, sink_vars>>

(***************************************************************************)
(* Specifications                                                          *)
(***************************************************************************)
InitProcs(active, headers, jobs_done, faults_done) ==
  /\ wb = NoFile
  /\ locked = FALSE
  /\ src_cols \in headers
  /\ pc = [p \in Procs |-> IF p \in active THEN "idle" ELSE "off"]
  /\ job_no = [p \in Procs |-> jobs_done]
  /\ wide = [p \in Procs |-> <<>>]
  /\ clean_row = [p \in Procs |-> <<>>]
  /\ diag_rows = [p \in Procs |-> <<>>]
  /\ fn = [p \in Procs |-> CFC]
  /\ i = [p \in Procs |-> 1]
  /\ delay = [p \in Procs |-> SLEEP_UNITS]
  /\ sheets = [p \in Procs |-> <<>>]
  /\ tmp = [p \in Procs |-> NoFile]
  /\ exc = [p \in Procs |-> "none"]
  /\ pre = [p \in Procs |-> NoFile]
  /\ acked = [s \in Sheets |-> <<>>]
  /\ faults = faults_done
  /\ job = [p \in Procs |-> NoJob]
  /\ ans = [p \in Procs |-> ""]
  /\ before_coupon_cookies = [p \in Procs |-> <<>>]
  /\ after_coupon_cookies = [p \in Procs |-> <<>>]
  /\ popup_seen = [p \in Procs |-> ""]
  /\ new_tabs = [p \in Procs |-> <<>>]
  /\ redirect_url = [p \in Procs |-> ""]
  /\ refreshed = [p \in Procs |-> FALSE]
  /\ observed = [p \in Procs |-> FALSE]
  /\ errors = [p \in Procs |-> <<>>]

\* no observer under way
ObsOff ==
  /\ drv = [windows |-> {}, focus |-> "w1", url |-> [h \in Handles |-> ""],
            nav |-> [h \in Handles |-> 1]]
  /\ obs_arg = [pre_url |-> "", pre_nav_ts |-> None, pre_handles |-> {},
            first |-> "w1", window_sec |-> 0, active |-> "w1"]
  /\ obs = [t |-> 0, seen |-> {}, new_tabs |-> <<>>, redirect_url |-> "",
            refreshed |-> FALSE, todo |-> <<>>]
  /\ obs_pc = "off"
  /\ hist = [tab_handles |-> <<>>, first_diff |-> "", refresh_tick |-> FALSE]
  /\ events = 0

\* no function called on its own
FunOff ==
  /\ call = [f |-> "none"]
  /\ ret = [f |-> "none"]

\* one process: the jobs of a pipeline run, one after the other
\* run_pipeline's loop not under way
MatOff ==
  /\ args = [start_browser |-> None, start_ext |-> None, start_link_idx |-> 1,
             only_extension |-> None, privacy_name |-> None]
  /\ rp = [pc |-> "off", b_start_idx |-> 0, e_start_idx |-> 0,
           l_start_idx |-> 0, bi |-> 0, levels |-> <<>>, pl |-> 0, ei |-> 0,
           li |-> 0, job_no |-> 0]
  /\ ran = <<>>

Init == InitProcs({1}, SrcHeaders, 0, 0) /\ ObsOff /\ FunOff /\ MatOff

Next ==
  \/ \E p \in Procs : StartJob(p)
  \/ \E p \in Procs : CallAppend(p)
  \/ \E p \in Procs : Write(p)
  \/ \E p \in Procs : AwTmp(p)
  \/ \E p \in Procs : AwReplace(p)
  \/ \E p \in Procs : AwFinally(p)
  \/ \E p \in Procs : RwReturn(p)
  \/ \E p \in Procs : RwSleep(p)
  \/ \E p \in Procs : RwRaise(p)
  \/ \E p \in Procs : GwNext(p)
  \/ \E p \in Procs : JobFailed(p)
  \/ ViewerOpen
  \/ ViewerClose

Spec == Init /\ [][Next]_vars

\* two pipeline runs started on the same out_xlsx (spec section 5: "two job
\* runs overlap due to operator error"), each with one job left to run and
\* every read of out_xlsx returning
InitConc ==
  /\ InitProcs({1, 2}, {<<"Test ID", "Status">>}, MaxJobs - 1, MaxFaults)
  /\ ObsOff /\ FunOff /\ MatOff

\* the two runs with nothing else failing: no viewer, no fault
NextConc ==
  \/ \E p \in Procs : StartJob(p)
  \/ \E p \in Procs : CallAppend(p)
  \/ \E p \in Procs : Write(p)
  \/ \E p \in Procs : AwTmp(p)
  \/ \E p \in Procs : AwReplace(p)
  \/ \E p \in Procs : AwFinally(p)
  \/ \E p \in Procs : RwReturn(p)
  \/ \E p \in Procs : GwNext(p)

SpecConc == InitConc /\ [][NextConc]_vars

\* one job run by run_one of a manual runner, with a template that has the
\* operator's columns and with every read and write of out_xlsx succeeding
RunHeaders ==
  { <<"Test ID", "Extension Popup Seen?", "Cookies Added (count)",
      "Cookies Changed (count)", "Status">> }
InitRun ==
  InitProcs({1}, RunHeaders, MaxJobs - 1, MaxFaults) /\ ObsOff /\ FunOff /\ MatOff

NextRun ==
  \/ \E p \in Procs : StartRun(p)
  \/ \E p \in Procs : AnswerNo(p)
  \/ \E p \in Procs : AnswerYes(p)
  \/ \E p \in Procs : PopupAnswer(p)
  \/ \E p \in Procs : Observe(p)
  \/ \E p \in Procs : CaptureAfter(p)
  \/ \E p \in Procs : AnswerSkip(p)
  \/ \E p \in Procs : Build(p)
  \/ \E p \in Procs : CallAppend(p)
  \/ \E p \in Procs : Write(p)
  \/ \E p \in Procs : AwTmp(p)
  \/ \E p \in Procs : AwReplace(p)
  \/ \E p \in Procs : AwFinally(p)
  \/ \E p \in Procs : RwReturn(p)
  \/ \E p \in Procs : GwNext(p)
  \/ \E p \in Procs : JobFailed(p)

SpecRun == InitRun /\ [][NextRun]_vars

\* the observer called by run_one: one or two windows open, one of them
\* active; pre_handles as read, or empty; pre_url the URL of the active
\* window (possibly empty); pre_nav_ts its marker, or None when reading it
\* raised; window_sec in units of the 0.2 s sleep
InitObs ==
  /\ InitProcs({}, {<<"Test ID", "Status">>}, 0, 0) /\ FunOff /\ MatOff
  /\ \E W \in {{"w1"}, {"w1", "w2"}} : \E f \in W : \E u \in {"", CartUrl} :
       /\ drv = [windows |-> W, focus |-> f,
                 url |-> [h \in Handles |-> IF h = f THEN u
                                            ELSE IF h \in W THEN OtherUrl ELSE ""],
                 nav |-> [h \in Handles |-> 1]]
       /\ \E ph \in {W, {}} : \E fst \in (IF ph = {} THEN {"w1"} ELSE ph) :
          \E m \in {None, Marker(1)} : \E w \in 0..MaxTicks :
            /\ obs_arg = [pre_url |-> u, pre_nav_ts |-> m, pre_handles |-> ph,
                      first |-> fst, window_sec |-> w, active |-> f]
            /\ obs = [t |-> 0, seen |-> ph, new_tabs |-> <<>>, redirect_url |-> "",
                      refreshed |-> FALSE, todo |-> <<>>]
  /\ obs_pc = "while"
  /\ hist = [tab_handles |-> <<>>, first_diff |-> "", refresh_tick |-> FALSE]
  /\ events = 0

NextObs ==
  \/ ObsWhile
  \/ ObsFor
  \/ ObsSwitchBack
  \/ ObsRead
  \/ ObsAfter
  \/ TabOpens
  \/ Navigates
  \/ Reloads

SpecObs == InitObs /\ [][NextObs]_vars

\* the observer is a thread of its own: whatever the browser does, its next
\* statement is executed (every driver call returns or raises, sleep returns)
ObsStep == ObsWhile \/ ObsFor \/ ObsSwitchBack \/ ObsRead \/ ObsAfter
SpecObsFair == SpecObs /\ WF_vars(ObsStep)

(***************************************************************************)
(* The functions of the runners, each called on its own                    *)
(***************************************************************************)
\* the names _is_target_name is called with
Names == Strs \cup {None}

\* _is_target_name(n)
CallIsTargetName ==
  /\ call.f = "none"
  /\ \E n \in Names :
       /\ call' = [f |-> "_is_target_name", n |-> n]
       /\ ret' = [f |-> "_is_target_name", v |-> IsTargetName(n)]
  /\ UNCHANGED <<obs_vars, pipe_vars>>

\* what goto_comparison_and_write computes of two lists of cookie frames:
\* bmap, amap, changed_names, added, changed and the summary row
Compare(before, after) ==
  [bmap |-> CookieMap(before), amap |-> CookieMap(after),
   changed_names |-> ChangedNames(before, after),
   added |-> AddedKeys(before, after),
   removed |-> RemovedKeys(before, after),
   changed |-> ChangedKeys(before, after),
   clean_row |-> SummaryRow(Job(JobId(1, 1), "chromium", 0), before, after,
                            <<>>, "", FALSE, "")]

\* the comparison of goto_comparison_and_write on the frames of two
\* snapshots, and the same comparison with the snapshots exchanged
CallCompare ==
  /\ call.f = "none"
  /\ \E B, A \in Snapshots :
       LET before == [k \in DOMAIN B |-> CookieFrameFull(B[k])]
           after == [k \in DOMAIN A |-> CookieFrameFull(A[k])]
       IN /\ call' = [f |-> "compare", before |-> before, after |-> after]
          /\ ret' = [f |-> "compare", v |-> Compare(before, after),
                     swapped |-> Compare(after, before)]
  /\ UNCHANGED <<obs_vars, pipe_vars>>

\* the function returns
Return ==
  /\ call.f # "none"
  /\ call' = [f |-> "none"]
  /\ ret' = [f |-> "none"]
  /\ UNCHANGED <<obs_vars, pipe_vars>>

InitFun ==
  InitProcs({}, {<<"Test ID", "Status">>}, 0, 0) /\ ObsOff /\ FunOff /\ MatOff

NextFun ==
  \/ CallIsTargetName
  \/ CallCompare
  \/ Return

SpecFun == InitFun /\ [][NextFun]_vars

\* the cookies of the snapshots the rows are built from: those of CookieJar,
\* a target name on another path with an empty value, and a second value
\* of a cookie that is no target
RowSnapshots ==
  LET RowJar == CookieJar \cup {RawCookie("gclid", "", "/a"),
                                RawCookie("x", "v2", "/")}
  IN UNION {[1..n -> RowJar] : n \in 0..MaxCookies}

\* goto_comparison_and_write of a manual runner builds the wide row and the
\* diagnostics rows of a job from two snapshots and the new tabs
CallRows ==
  /\ call.f = "none"
  /\ \E runner \in Runners : \E ordinal \in Ordinals :
     \E B, A \in RowSnapshots : \E tabs \in {r.new_tabs : r \in ObserverResults} :
       LET j == Job(JobId(1, 1), runner, ordinal)
           Frames(cookies) ==
             [k \in DOMAIN cookies |-> CookieFrameFull(cookies[k])]
       IN /\ call' = [f |-> "rows", runner |-> runner, ordinal |-> ordinal,
                      before |-> Frames(B), after |-> Frames(A),
                      new_tabs |-> tabs]
          /\ ret' = [f |-> "rows",
                     wide |-> WideRow(runner, j, Frames(B), Frames(A)),
                     diag_rows |-> DiagRows(runner, j, Frames(B), Frames(A), tabs)]
  /\ UNCHANGED <<obs_vars, pipe_vars>>

NextRows ==
  \/ CallRows
  \/ Return

SpecRows == InitFun /\ [][NextRows]_vars

\* run_pipeline over the matrix, for every choice of arguments: names are
\* given in any letter case, a browser may be unknown, --start-link may be
\* past the last link
InitMat ==
  /\ InitProcs({}, {<<"Test ID", "Status">>}, 0, 0) /\ ObsOff /\ FunOff
  /\ args \in [start_browser : {None, "firefox", "safari", "chrome", "edge", "x"},
              start_ext : {None, "a", "D", "l"},
              start_link_idx : 1..(MaxLinks + 1),
              only_extension : {None, "a", "D"},
              privacy_name : {None, "Strict"}]
  /\ rp = [pc |-> "start", b_start_idx |-> 0, e_start_idx |-> 0,
           l_start_idx |-> 0, bi |-> 0, levels |-> <<>>, pl |-> 0, ei |-> 0,
           li |-> 0, job_no |-> 0]
  /\ ran = <<>>

NextMat ==
  \/ RpStart
  \/ RpBrowser
  \/ RpLevel
  \/ RpExt
  \/ RpLink

SpecMat == InitMat /\ [][NextMat]_vars

(***************************************************************************)
(* Reading the state                                                       *)
(***************************************************************************)
HasSheet(file, s) == file.exists /\ s \in DOMAIN file.sheets
Hdr(file, s) == IF HasSheet(file, s) THEN file.sheets[s].hdr ELSE <<>>
Rows(file, s) == IF HasSheet(file, s) THEN file.sheets[s].rows ELSE <<>>

IsPrefix(a, b) ==
  /\ Len(a) <= Len(b)
  /\ \A k \in 1..Len(a) : a[k] = b[k]

\* row (a function from columns to cells) is a row of sheet s of file
Present(file, s, row) ==
  \E r \in DOMAIN Rows(file, s) :
    \A c \in DOMAIN row :
      /\ c \in Range(Hdr(file, s))
      /\ Rows(file, s)[r][c] = row[c]

InCall(p) == pc[p] \in {"write", "aw_tmp", "aw_replace", "aw_finally", "rw"}
Running == {p \in Procs : pc[p] # "off"}

\* the keys of the rows passed to the append in progress, in order
ArgKeys(p) ==
  CASE fn[p] = CFC -> DictKeys(wide[p])
    [] fn[p] = CLEAN -> DictKeys(clean_row[p])
    [] fn[p] = DIAG -> FromKeys(AllKeys(diag_rows[p]))

(***************************************************************************)
(* Claims                                                                  *)
(***************************************************************************)

\* C1: atomic persistence.  While an append is writing, out_xlsx is the
\* complete workbook it was when the append was called; after an attempt
\* that raised (writing the temporary file or replacing out_xlsx) it still
\* is; after an attempt that did not raise it is the complete new workbook.
C1_AtomicWrite ==
  \A p \in Running :
    /\ pc[p] \in {"write", "aw_tmp", "aw_replace"} => wb = pre[p]
    /\ pc[p] \in {"aw_finally", "rw", "raised"} /\ exc[p] # "none" => wb = pre[p]
    /\ pc[p] \in {"rw", "returned"} /\ exc[p] = "none" => wb = Workbook(sheets[p])

\* an attempt raised while out_xlsx held rows
C1_Witness ==
  \E p \in Running :
    /\ pc[p] = "rw" /\ exc[p] = "OSError"
    /\ \E s \in Sheets : Len(Rows(wb, s)) > 0

\* C2: no loss of persisted rows.  Whenever no append is in progress, every
\* row written by an append that returned is a row of its sheet.
C2_NoRowLost ==
  (\A p \in Running : ~InCall(p)) =>
    \A s \in Sheets : \A k \in DOMAIN acked[s] : Present(wb, s, acked[s][k])

\* C3: bounded retry that is surfaced.  _retry_write makes at most
\* MAX_RETRIES attempts, the delay before attempt n is SLEEP_SECONDS *
\* 1.5^(n-1), it returns only after an attempt that did not raise (whose
\* workbook is then on file), and a PermissionError leaves it only from
\* attempt MAX_RETRIES.
C3_BoundedRetry ==
  \A p \in Running :
    /\ i[p] \in 1..MAX_RETRIES
    /\ delay[p] * 2^(i[p] - 1) = SLEEP_UNITS * 3^(i[p] - 1)
    /\ pc[p] = "returned" => exc[p] = "none" /\ wb = Workbook(sheets[p])
    /\ pc[p] = "raised" => exc[p] # "none"
    /\ pc[p] = "raised" /\ exc[p] = "PermissionError" => i[p] = MAX_RETRIES

\* all MAX_RETRIES attempts failed on the lock and the error was raised
C3_Witness ==
  \E p \in Running :
    pc[p] = "raised" /\ exc[p] = "PermissionError" /\ i[p] = MAX_RETRIES

\* C4: no lost update under concurrent writers.  When both processes have
\* returned from an append, every row written by an append that returned
\* is a row of its sheet.
C4_NoLostUpdate ==
  (\A p \in Running : pc[p] = "returned") =>
    \A s \in Sheets : \A k \in DOMAIN acked[s] : Present(wb, s, acked[s][k])

\* C5: header monotonicity.  When an append has returned, every sheet's
\* header as it was at the call is a prefix of its header now, and the
\* header of the append's sheet is the old header followed by the keys of
\* the row(s) that were not in it, in the row's key order.
C5_HeaderMonotone ==
  \A p \in Running :
    pc[p] = "returned" =>
      /\ \A s \in Sheets : IsPrefix(Hdr(pre[p], s), Hdr(wb, s))
      /\ LET old == Hdr(pre[p], fn[p])
             IsNew(k) == k \notin Range(old)
         IN Hdr(wb, fn[p]) = old \o SelectSeq(ArgKeys(p), IsNew)

\* C6: schema drift is never lossy.  When an append has returned, every
\* key of the row(s) passed is a column of the sheet, a key that was not a
\* column at the call comes after all the columns of then, and the last
\* rows of the sheet hold the values passed.
C6_NoKeyDropped ==
  \A p \in Running :
    pc[p] = "returned" =>
      LET old == Hdr(pre[p], fn[p])
          new == Hdr(wb, fn[p])
          rows == Rows(wb, fn[p])
          arg == CASE fn[p] = CFC -> <<wide[p]>>
                   [] fn[p] = CLEAN -> <<clean_row[p]>>
                   [] fn[p] = DIAG -> diag_rows[p]
      IN /\ Len(rows) >= Len(arg)
         /\ \A r \in DOMAIN arg : \A k \in DOMAIN arg[r] :
              LET key == arg[r][k][1]
              IN /\ key \in Range(new)
                 /\ rows[Len(rows) - Len(arg) + r][key] = ToExcelCell(arg[r][k][2])
                 /\ key \notin Range(old) =>
                      \E n \in DOMAIN new : n > Len(old) /\ new[n] = key

\* C7: table independence.  When an append has returned, the other two
\* sheets are as they were at the call.
C7_Frame ==
  \A p \in Running :
    pc[p] = "returned" =>
      \A s \in Sheets \ {fn[p]} :
        /\ HasSheet(wb, s) = HasSheet(pre[p], s)
        /\ Hdr(wb, s) = Hdr(pre[p], s)
        /\ Rows(wb, s) = Rows(pre[p], s)

\* C8: existing cells are untouched.  When an append has returned, every
\* row the sheet had at the call is still there in place, with the same
\* value in every column of then and empty in every new column.
C8_CellsUntouched ==
  \A p \in Running :
    pc[p] = "returned" =>
      LET old == pre[p]
          s == fn[p]
      IN /\ Len(Rows(wb, s)) >= Len(Rows(old, s))
         /\ \A r \in DOMAIN Rows(old, s) :
              /\ \A c \in Range(Hdr(old, s)) :
                   c \in Range(Hdr(wb, s)) /\ Rows(wb, s)[r][c] = Rows(old, s)[r][c]
              /\ \A c \in Range(Hdr(wb, s)) \ Range(Hdr(old, s)) :
                   Rows(wb, s)[r][c] = NaN

\* the sheet holds a row of job id (col names the job in that sheet)
HasJobRow(file, s, col, id) ==
  /\ col \in Range(Hdr(file, s))
  /\ \E r \in DOMAIN Rows(file, s) : Rows(file, s)[r][col] = id

AckedJobRow(s, col, id) ==
  \E k \in DOMAIN acked[s] : col \in DOMAIN acked[s][k] /\ acked[s][k][col] = id

\* C9: per-job write order.  The summary append is called only after the
\* job's wide append returned and the diagnostics append only after its
\* summary append returned; and in every state a Diagnostics row of a job
\* on file implies its Clean_Data row is on file, which implies its wide
\* row is on file.
C9_WriteOrder ==
  /\ \A p \in Running :
       LET id == JobId(p, job_no[p])
       IN /\ pc[p] = "gw_clean" \/ (InCall(p) /\ fn[p] = CLEAN) =>
               AckedJobRow(CFC, "Affiliate Link", id)
          /\ pc[p] = "gw_diag" \/ (InCall(p) /\ fn[p] = DIAG) =>
               AckedJobRow(CLEAN, "Test ID", id)
  /\ \A p \in Running : \A n \in 1..MaxJobs :
       LET id == JobId(p, n)
       IN /\ HasJobRow(wb, DIAG, "Test ID", id) => HasJobRow(wb, CLEAN, "Test ID", id)
          /\ HasJobRow(wb, CLEAN, "Test ID", id) =>
               HasJobRow(wb, CFC, "Affiliate Link", id)

\* the rows of job id among the rows written by the appends that returned
AckedJobRows(s, col, id) ==
  {k \in DOMAIN acked[s] : col \in DOMAIN acked[s][k] /\ acked[s][k][col] = id}

\* two cookies of the snapshot have the same identity and different values
HasDuplicateIdentity(cookies) ==
  \E m, n \in DOMAIN cookies :
    m # n /\ Key(cookies[m]) = Key(cookies[n]) /\ cookies[m].value # cookies[n].value

\* goto_comparison_and_write has built the job's records
Built(p) == pc[p] \in {"gw_wide", "gw_clean", "gw_diag", "returned"} \/ InCall(p)

\* C10: skip path.  From the operator's answer "s" on, After is Before, the
\* observer has not run (no redirect, not refreshed, no new tab) and the
\* popup answer is "Skipped"; the summary row built says "Skipped" with both
\* counts "0" and there is no diagnostics row; and when the last append has
\* returned, the appends that returned wrote one wide row, one summary row
\* (saying "Skipped", "0", "0") and no diagnostics row for the job.
C10_SkipPath ==
  \A p \in Running : ans[p] = "s" =>
    /\ after_coupon_cookies[p] = before_coupon_cookies[p]
    /\ ~observed[p] /\ redirect_url[p] = "" /\ ~refreshed[p] /\ new_tabs[p] = <<>>
    /\ popup_seen[p] = "Skipped"
    /\ Built(p) =>
         /\ DictGet(clean_row[p], "Extension Popup Seen?", None) = "Skipped"
         /\ DictGet(clean_row[p], "Cookies Added (count)", None) = "0"
         /\ DictGet(clean_row[p], "Cookies Changed (count)", None) = "0"
         /\ DictGet(clean_row[p], "Redirect URL", None) = ""
         /\ DictGet(clean_row[p], "Refreshed?", None) = "No"
         /\ DictGet(clean_row[p], "New Pages Opened", None) = "0"
         /\ diag_rows[p] = <<>>
    /\ pc[p] = "returned" /\ fn[p] = DIAG =>
         LET id == job[p].job_id
             mine == AckedJobRows(CLEAN, "Test ID", id)
         IN /\ Cardinality(AckedJobRows(CFC, "Affiliate Link", id)) = 1
            /\ Cardinality(mine) = 1
            /\ AckedJobRows(DIAG, "Test ID", id) = {}
            /\ \A k \in mine :
                 /\ acked[CLEAN][k]["Extension Popup Seen?"] = "Skipped"
                 /\ acked[CLEAN][k]["Cookies Added (count)"] = "0"
                 /\ acked[CLEAN][k]["Cookies Changed (count)"] = "0"

\* a skipped job whose Before snapshot has two cookies of one identity has
\* made its last append
C10_Witness ==
  \E p \in Running :
    /\ ans[p] = "s" /\ pc[p] = "returned" /\ fn[p] = DIAG
    /\ HasDuplicateIdentity(before_coupon_cookies[p])

\* C11: partial capture failure never aborts a job.  No job is ever left
\* through an exception of driver.get_cookies(): run_one goes on with an
\* empty snapshot to the appends of the wide row and the summary row.
C11_CaptureRecovered ==
  \A p \in Running : ~(pc[p] = "raised" /\ exc[p] = "WebDriverException")

\* C12: batch isolation.  Once run_pipeline has reported job n as failed it
\* has not stopped: it is at the head of its loop over the jobs with job
\* n + 1 (the next job of the matrix, as after a job that succeeded) the
\* one it can start, or it has started job n + 1 or a later one; jobs are
\* reported in the order they were run, each at most once.
C12_BatchIsolation ==
  \A p \in Procs :
    /\ \A k \in DOMAIN errors[p] :
         \E n \in 1..MaxJobs :
           /\ errors[p][k] = JobId(p, n)
           /\ pc[p] # "off"
           /\ job_no[p] >= n
           /\ job_no[p] = n => pc[p] = "idle"
           /\ \A m \in DOMAIN errors[p] : m < k =>
                \E n2 \in 1..(n - 1) : errors[p][m] = JobId(p, n2)
    /\ pc[p] = "idle" /\ job_no[p] < MaxJobs => ENABLED StartJob(p)

\* a job was reported as failed and the append of the next job returned
C12_Witness ==
  \E p \in Running : \E n \in 1..(MaxJobs - 1) :
    /\ JobId(p, n) \in Range(errors[p])
    /\ job_no[p] = n + 1 /\ pc[p] = "returned"

\* C13: observer termination.  The observer returns: it reaches its return
\* statement whatever tabs open and navigations occur and whichever driver
\* calls raise, also with pre_handles empty; no exception leaves it; the
\* loop is left only once window_sec has elapsed; with window_sec = 0 the
\* result is ("", False, []).
C13_ObserverReturns ==
  /\ [](obs_pc # "raised")
  /\ [](obs_pc \in {"after", "done"} => obs.t >= obs_arg.window_sec)
  /\ [](obs_pc = "done" /\ obs_arg.window_sec = 0 =>
          obs.redirect_url = "" /\ ~obs.refreshed /\ obs.new_tabs = <<>>)
  /\ <>(obs_pc = "done")

\* the observer has returned after a window in which a tab opened, with
\* pre_handles empty, so that every switch back raised
C13_Witness ==
  /\ obs_pc = "done" /\ obs_arg.pre_handles = {} /\ obs_arg.window_sec > 0
  /\ obs.new_tabs # <<>> /\ events = MaxEvents

\* C14: redirect attribution.  The redirect_url the observer returns is the
\* first non-empty URL read on a tick that differs from the pre-action URL
\* (a later URL never replaces it); when no such URL was read and a new tab
\* was discovered, it is the URL of the first discovered new tab; otherwise
\* it is empty.
C14_RedirectAttribution ==
  obs_pc = "done" =>
    obs.redirect_url = IF hist.first_diff # "" THEN hist.first_diff
                       ELSE IF obs.new_tabs # <<>> THEN obs.new_tabs[1].url
                       ELSE ""

\* C15: refresh detection.  refreshed is true exactly when some tick read a
\* navigation marker different from the pre-action marker (both markers
\* having been read) and a URL equal to the pre-action URL while no redirect
\* was recorded; once true it stays true.
C15_RefreshDetection ==
  /\ [](obs.refreshed = hist.refresh_tick)
  /\ [][obs.refreshed => obs'.refreshed]_vars

\* the observer returned refreshed = True after a reload of the active
\* window, and no redirect
C15_Witness ==
  /\ obs_pc = "done" /\ obs.refreshed /\ obs.redirect_url = ""
  /\ drv.nav[obs_arg.active] > 1 /\ drv.url[obs_arg.active] = obs_arg.pre_url

\* C16: new-tab recording.  At every point of the observer new_tabs has one
\* record per handle seen so far that was not a pre-action handle, in the
\* order of discovery: no handle is recorded twice, no pre-action handle is
\* recorded, a record is the title and URL of its window or blank, and
\* records are only ever appended.
C16_NewTabRecording ==
  /\ [](LET recorded == hist.tab_handles
        IN /\ Len(obs.new_tabs) = Len(recorded)
           /\ Range(recorded) = obs.seen \ obs_arg.pre_handles
           /\ \A j, k \in DOMAIN recorded : recorded[j] = recorded[k] => j = k
           /\ \A k \in DOMAIN recorded :
                \/ obs.new_tabs[k] = [title |-> "", url |-> ""]
                \/ obs.new_tabs[k].title = Title(recorded[k]))
  /\ [][IsPrefix(obs.new_tabs, obs'.new_tabs)]_vars

\* two tabs have been recorded after the first tick, the capture of the
\* second one failed
C16_Witness ==
  /\ Len(obs.new_tabs) = 2 /\ obs.t > 0
  /\ obs.new_tabs[2] = [title |-> "", url |-> ""]
  /\ obs.new_tabs[1] # obs.new_tabs[2]

\* C17: focus return.  On every tick, when the observer reads the current URL
\* and the navigation marker, focus is on the window that was active before
\* the action if that window still exists; and when nothing navigated and
\* no tab opened during the window the observer returns an empty
\* redirect_url, refreshed = False and no new tabs.
C17_FocusReturn ==
  /\ obs_pc = "read" /\ obs_arg.active \in drv.windows => drv.focus = obs_arg.active
  /\ obs_pc = "done" /\ events = 0 /\ obs_arg.pre_handles # {} =>
       obs.redirect_url = "" /\ ~obs.refreshed /\ obs.new_tabs = <<>>

\* C18: classification.  _is_target_name(n) is None for an empty or None
\* name; the configured name when n equals an exact target without regard
\* to case, whether or not a prefix matches too; otherwise n itself when
\* lower-cased n starts with the prefix of a family; otherwise None.  Two
\* names of one family that differ get different keys, two spellings of an
\* exact target the same key.
C18_Classification ==
  call.f = "_is_target_name" =>
    LET n == call.n
        exact == {t \in Range(TARGET_ORDER) : ~EndsWithStar(t)}
        families == {t \in Range(TARGET_ORDER) : EndsWithStar(t)}
        hits == IF n \in {None, ""} THEN {}
                ELSE {t \in exact : Lower(t) = Lower(n)}
    IN ret.v = IF n \in {None, ""} THEN None
               ELSE IF hits # {} THEN CHOOSE t \in hits : TRUE
               ELSE IF \E t \in families : StartsWith(Lower(n), Lower(DropLast(t)))
                    THEN n
               ELSE None

\* a name of a family, with a capital, was classified under its own name
C18_Witness ==
  call.f = "_is_target_name" /\ call.n = "_ga_A" /\ ret.v = "_ga_A"

\* the identities of the records of a snapshot
Identities(cookies) == {Key(cookies[k]) : k \in DOMAIN cookies}
\* the value hashes an identity has in a snapshot
Hashes(cookies, key) ==
  {cookies[k].value_hash : k \in {m \in DOMAIN cookies : Key(cookies[m]) = key}}

\* C19: diff completeness and symmetry.  Every identity of Before or After
\* is in exactly one of ADDED (only in After), REMOVED (only in Before),
\* CHANGED (in both, the value hashes the two maps hold differ) and
\* UNCHANGED (in both, equal hashes); with the snapshots exchanged ADDED
\* and REMOVED change places and CHANGED stays; the summary row's counts
\* are the sizes of ADDED and CHANGED.
C19_DiffPartition ==
  call.f = "compare" =>
    LET B == Identities(call.before)
        A == Identities(call.after)
        v == ret.v
        unchanged == {k \in A \cap B : v.amap[k].value_hash = v.bmap[k].value_hash}
    IN /\ v.added = A \ B
       /\ v.removed = B \ A
       /\ v.changed \subseteq A \cap B
       /\ \A k \in A \cap B :
            /\ k \in v.changed <=> k \notin unchanged
            /\ Cardinality(Hashes(call.before, k)) = 1
                 /\ Cardinality(Hashes(call.after, k)) = 1 =>
                 (k \in v.changed <=> Hashes(call.before, k) # Hashes(call.after, k))
       /\ v.added \cup v.removed \cup v.changed \cup unchanged = A \cup B
       /\ ret.swapped.added = v.removed
       /\ ret.swapped.removed = v.added
       /\ ret.swapped.changed = v.changed
       /\ DictGet(v.clean_row, "Cookies Added (count)", None) = ToString(Cardinality(A \ B))
       /\ DictGet(v.clean_row, "Cookies Changed (count)", None) = ToString(Cardinality(v.changed))

\* a comparison with an identity added, one changed and none removed
C19_Witness ==
  /\ call.f = "compare"
  /\ Cardinality(ret.v.added) = 1 /\ Cardinality(ret.v.changed) = 1
  /\ ret.v.removed = {}
  /\ Len(call.before) = 1

\* the first record of each identity of a snapshot
FirstOccurrence(cookies) ==
  [key \in Identities(cookies) |->
     cookies[CHOOSE n \in DOMAIN cookies :
               /\ Key(cookies[n]) = key
               /\ \A m \in DOMAIN cookies : Key(cookies[m]) = key => n <= m]]

\* C20: first occurrence wins.  The maps the diff is made of hold, for each
\* identity, the first record of the snapshot with that identity, and
\* CHANGED compares the value hashes of these first records.
C20_FirstOccurrenceWins ==
  call.f = "compare" =>
    LET first_b == FirstOccurrence(call.before)
        first_a == FirstOccurrence(call.after)
    IN /\ ret.v.bmap = first_b
       /\ ret.v.amap = first_a
       /\ ret.v.changed =
            {k \in DOMAIN first_a \cap DOMAIN first_b :
               first_a[k].value_hash # first_b[k].value_hash}
       /\ DictGet(ret.v.clean_row, "Cookies Changed (count)", None) =
            ToString(Cardinality({k \in DOMAIN first_a \cap DOMAIN first_b :
                                    first_a[k].value_hash # first_b[k].value_hash}))

\* the canonical keys of the cookies of a snapshot
CanonKeys(cookies) == {IsTargetName(cookies[k].name) : k \in DOMAIN cookies} \ {None}
\* the first cookie of a snapshot that classifies to ck
FirstOfKey(cookies, ck) ==
  cookies[CHOOSE n \in DOMAIN cookies :
            /\ IsTargetName(cookies[n].name) = ck
            /\ \A m \in DOMAIN cookies : IsTargetName(cookies[m].name) = ck => n <= m]
\* the cell of the wide row in column col
Cell(row, col) == DictGet(row, col, None)
\* the diagnostics rows of cookie name ck
DiagOf(rows, ck) ==
  {k \in DOMAIN rows : DictGet(rows[k], "Cookie Name", None) = ck}

\* C21: first match per target key.  For every canonical key of a snapshot
\* the wide row's Before (After) column holds the value of the first cookie
\* of that snapshot, in snapshot order, that classifies to the key, and the
\* hashes of the key's diagnostics row are the hashes of these first values.
C21_FirstMatch ==
  call.f = "rows" =>
    LET prefix == Prefix(call.ordinal)
    IN /\ \A ck \in CanonKeys(call.before) :
            /\ Cell(ret.wide, ck \o " (Before)") =
                 prefix \o FirstOfKey(call.before, ck).value
            /\ \A k \in DiagOf(ret.diag_rows, ck) :
                 DictGet(ret.diag_rows[k], "Before Hash", None) =
                   FirstOfKey(call.before, ck).value_hash
       /\ \A ck \in CanonKeys(call.after) :
            /\ Cell(ret.wide, ck \o " (After)") =
                 prefix \o FirstOfKey(call.after, ck).value
            /\ \A k \in DiagOf(ret.diag_rows, ck) :
                 DictGet(ret.diag_rows[k], "After Hash", None) =
                   FirstOfKey(call.after, ck).value_hash

\* the names of the cookies of a snapshot
NamesOf(cookies) == {cookies[k].name : k \in DOMAIN cookies}
\* the identities of name n in a snapshot, each with the record the spec's
\* diff holds for it
IdentitiesOf(cookies, n) == {key \in Identities(cookies) : key[1] = n}
\* name n has an identity that is ADDED, REMOVED or CHANGED between the
\* two snapshots
NameMoved(before, after, n) ==
  LET fb == FirstOccurrence(before)
      fa == FirstOccurrence(after)
  IN \/ IdentitiesOf(before, n) # IdentitiesOf(after, n)
     \/ \E key \in IdentitiesOf(before, n) \cap IdentitiesOf(after, n) :
          fb[key].value_hash # fa[key].value_hash

\* C22: bounded wide row.  The wide row has the columns "Cookie:<name>
\* (Before)" and "Cookie:<name> (After)" only for a name that is no target
\* and has an identity that is ADDED, REMOVED or CHANGED; a name whose
\* identities are all unchanged, and a target name, has neither column.
C22_BoundedWideRow ==
  call.f = "rows" =>
    \A n \in NamesOf(call.before) \cup NamesOf(call.after) :
      (DictHas(ret.wide, BeforeKey(n)) \/ DictHas(ret.wide, AfterKey(n))) =>
        /\ IsTargetName(n) = None
        /\ NameMoved(call.before, call.after, n)

\* a value as the ordinal prefix rule shows it
Shown(ordinal, value) ==
  IF value = "" THEN ""
  ELSE IF ordinal # 0 THEN ToString(ordinal) \o "." \o value
  ELSE value

\* C23: ordinal prefix rule.  Every Before/After cell of the wide row, of a
\* target key or of a non-target name, is "<ordinal>." and the raw value
\* when the ordinal is not 0 and the value is not empty, the raw value when
\* the ordinal is 0, and empty when the cookie is absent or its value is
\* empty: a value shown in the row is the value of a cookie of the
\* snapshot, shown by that rule.
C23_OrdinalPrefix ==
  call.f = "rows" =>
    \A k \in DOMAIN ret.wide :
      LET col == ret.wide[k][1]
          cell == ret.wide[k][2]
          Side(cookies, suffix) ==
            (\E ck \in CanonKeys(call.before) \cup CanonKeys(call.after) :
               col = ck \o suffix
               /\ cell \in {""} \cup {Shown(call.ordinal, cookies[m].value) :
                                       m \in {j \in DOMAIN cookies :
                                                IsTargetName(cookies[j].name) = ck}})
            \/ (\E n \in NamesOf(call.before) \cup NamesOf(call.after) :
                  col = SanitizeCookieName(n) \o suffix
                  /\ cell \in {""} \cup {Shown(call.ordinal, cookies[m].value) :
                                          m \in {j \in DOMAIN cookies :
                                                   cookies[j].name = n}})
      IN \/ col \in {"Plugin", "Browser", "Browser Privacy Level",
                     "Browser Version", "Website", "Affiliate Link"}
         \/ Side(call.before, " (Before)")
         \/ Side(call.after, " (After)")

\* the target diff of canonical key ck
TargetDiff(before, after, ck) ==
  IF ck \notin CanonKeys(before) THEN "ADDED"
  ELSE IF ck \notin CanonKeys(after) THEN "REMOVED"
  ELSE IF FirstOfKey(before, ck).value_hash # FirstOfKey(after, ck).value_hash
       THEN "CHANGED"
  ELSE "UNCHANGED"
\* the value hashes of the cookies of a snapshot that classify to ck
KeyHashes(cookies, ck) ==
  {cookies[m].value_hash :
     m \in {j \in DOMAIN cookies : IsTargetName(cookies[j].name) = ck}}

\* C24: diagnostics content.  The diagnostics rows of a job are one row for
\* each canonical key whose target diff is ADDED, REMOVED or CHANGED, with
\* that change and with value hashes of the key's cookies (or nothing) in
\* the hash columns, no row for an UNCHANGED key, and after them one
\* "(new_tab)" row per new tab, in order; also for a cookie whose name is
\* an exact target in another letter case.
C24_DiagnosticsContent ==
  call.f = "rows" =>
    LET keys == CanonKeys(call.before) \cup CanonKeys(call.after)
        moved == {ck \in keys :
                    TargetDiff(call.before, call.after, ck) # "UNCHANGED"}
        rows == ret.diag_rows
        n == Cardinality(moved)
    IN /\ Len(rows) = n + Len(call.new_tabs)
       /\ \A ck \in moved :
            \E k \in 1..n :
              /\ DiagOf(rows, ck) = {k}
              /\ DictGet(rows[k], "Change", None) =
                   TargetDiff(call.before, call.after, ck)
              /\ DictGet(rows[k], "Before Hash", None) \in
                   {""} \cup KeyHashes(call.before, ck)
              /\ DictGet(rows[k], "After Hash", None) \in
                   {""} \cup KeyHashes(call.after, ck)
       /\ \A k \in DOMAIN call.new_tabs :
            /\ n + k \in DOMAIN rows
            /\ DictGet(rows[n + k], "Cookie Name", None) = "(new_tab)"
            /\ DictGet(rows[n + k], "Change", None) = call.new_tabs[k].title
            /\ DictGet(rows[n + k], "After Hash", None) = call.new_tabs[k].url

\* C27: wide row and diagnostics agree (Chromium manual runner).  For every
\* target key of the wide row, the diagnostics have a row ADDED / REMOVED /
\* CHANGED for it exactly when the key is only in After / only in Before /
\* in both with different values, by the Before and After values the wide
\* row shows for the key.
C27_WideAndDiagnosticsAgree ==
  call.f = "rows" /\ call.runner = "chromium" =>
    LET bt == SnapshotTargets(call.before)
        at == SnapshotTargets(call.after)
    IN \A ck \in DOMAIN bt \cup DOMAIN at :
         LET shown == IF ck \notin DOMAIN bt THEN "ADDED"
                      ELSE IF ck \notin DOMAIN at THEN "REMOVED"
                      ELSE IF Cell(ret.wide, ck \o " (Before)")
                                # Cell(ret.wide, ck \o " (After)")
                           THEN "CHANGED"
                      ELSE "UNCHANGED"
             rows == DiagOf(ret.diag_rows, ck)
         IN IF shown = "UNCHANGED" THEN rows = {}
            ELSE /\ Cardinality(rows) = 1
                 /\ \A k \in rows : DictGet(ret.diag_rows[k], "Change", None) = shown

\* C28: a reported non-target change is visible.  For every pair of columns
\* "Cookie:<name> (Before)" / "Cookie:<name> (After)" of the wide row the
\* two cells hold different values.
C28_ReportedChangeVisible ==
  call.f = "rows" =>
    \A n \in NamesOf(call.before) \cup NamesOf(call.after) :
      DictHas(ret.wide, BeforeKey(n)) =>
        Cell(ret.wide, BeforeKey(n)) # Cell(ret.wide, AfterKey(n))

\* C26: refresh and redirect exclude each other.  The observer never
\* returns refreshed = True together with a non-empty redirect_url.
C26_RefreshExcludesRedirect ==
  obs_pc = "done" => ~(obs.refreshed /\ obs.redirect_url # "")

\* C25: exactly-once append under retry.  When an append returns, its table
\* is the table as it was when the append was called followed by the rows
\* passed to the call and nothing else, after however many failed attempts.
C25_ExactlyOnce ==
  \A p \in Running :
    pc[p] = "returned" =>
      LET s == fn[p]
          old == Rows(pre[p], s)
          new == Rows(wb, s)
      IN /\ Len(new) = Len(old) + Len(NewRows(p))
         /\ \A k \in DOMAIN old : Present(wb, s, old[k])
         /\ \A k \in DOMAIN NewRows(p) :
              new[Len(old) + k] = [c \in Range(Hdr(wb, s)) |->
                 IF c \in DOMAIN NewRows(p)[k] THEN NewRows(p)[k][c] ELSE NaN]

(***************************************************************************)
(* run_pipeline: resume offsets and the only_extension filter              *)
(***************************************************************************)
\* the start indexes the arguments name (0-based, as in the source)
StartB ==
  IF args.start_browser = None THEN 0
  ELSE IndexOfName(Matrix.browsers, args.start_browser)
StartE ==
  IF args.start_ext = None THEN 0
  ELSE IndexOfName(Matrix.extensions, args.start_ext)
StartL == args.start_link_idx - 1

\* the privacy levels run_pipeline iterates for the browser at index bi
LevelsAt(bi) ==
  PrivacyIter(Matrix, Matrix.browsers[bi + 1].name, args.privacy_name)

\* every (browser, privacy level, extension, link) of the matrix, by index
Coordinates ==
  UNION {{bi} \X (0..(Len(LevelsAt(bi)) - 1))
              \X (0..(Len(Matrix.extensions) - 1))
              \X (0..(Len(Matrix.links) - 1)) :
           bi \in 0..(Len(Matrix.browsers) - 1)}

\* the combination has a runner and a package path
Runnable(c) ==
  /\ PickRunner(Matrix.browsers[c[1] + 1].name) # None
  /\ ResolveExtensionPath(Matrix.extensions[c[3] + 1],
                          Matrix.browsers[c[1] + 1].name) # None

\* the resume offsets leave the combination in: it is not before the start
\* browser, and in the first privacy level of the start browser it is not
\* before the start extension nor, for the start extension, before the
\* start link
NotSkipped(c) ==
  /\ c[1] >= StartB
  /\ (c[1] = StartB /\ c[2] = 0) =>
       /\ c[3] >= StartE
       /\ c[3] = StartE => c[4] >= StartL

\* the only_extension filter leaves the combination in
Filtered(c) ==
  \/ args.only_extension = None
  \/ NameLower(Matrix.extensions[c[3] + 1].name) = NameLower(args.only_extension)

Expected == {c \in Coordinates : Runnable(c) /\ NotSkipped(c) /\ Filtered(c)}

\* matrix order
Before(c, d) ==
  \E k \in 1..4 : c[k] < d[k] /\ \A m \in 1..(k - 1) : c[m] = d[m]

RanAt == {ran[k].at : k \in DOMAIN ran}

\* C29: the jobs handed to a runner are, in matrix order, combinations with
\* a runner and a package path that the resume offsets leave in (nothing
\* before the start browser, nothing before the start extension in the
\* first privacy level of the start browser, nothing before the start link
\* for the start extension there); each job carries its combination; the
\* job numbers count up from 1 and the job_ids are pairwise distinct; and a
\* run without only_extension that returns has run every such combination
C29_ResumeOffsets ==
  /\ \A k \in DOMAIN ran :
       /\ ran[k].at \in Expected
       /\ ran[k].job_no = k
       /\ ran[k].job.browser = Matrix.browsers[ran[k].at[1] + 1].name
       /\ ran[k].job.privacy_name = LevelsAt(ran[k].at[1])[ran[k].at[2] + 1].name
       /\ ran[k].job.extension_ordinal = ran[k].at[3] + 1
       /\ ran[k].job.extension_name = Matrix.extensions[ran[k].at[3] + 1].name
       /\ ran[k].job.affiliate_link = Matrix.links[ran[k].at[4] + 1]
  /\ \A k, m \in DOMAIN ran :
       k < m => /\ Before(ran[k].at, ran[m].at)
                /\ ran[k].job.job_id # ran[m].job.job_id
  /\ (rp.pc = "returned" /\ args.only_extension = None) => RanAt = Expected

\* a run resumed at a later browser, a later extension and a later link has
\* returned: the first privacy level of the start browser began at the
\* offsets, its second level was run in full, no earlier browser was run
C29_Witness ==
  /\ rp.pc = "returned"
  /\ args.only_extension = None
  /\ StartE > 0 /\ StartL > 0
  /\ <<StartB, 0, StartE, StartL>> \in RanAt
  /\ <<StartB, 0, StartE, 0>> \notin RanAt
  /\ <<StartB, 0, 0, 0>> \notin RanAt
  /\ <<StartB, 0, StartE + 1, 0>> \in RanAt
  /\ <<StartB, 1, 0, 0>> \in RanAt
  /\ <<StartB, 1, StartE, 0>> \in RanAt
  /\ StartB > 0
  /\ \A c \in RanAt : c[1] >= StartB

\* the first combination, in matrix order, that the offsets and the filter
\* leave in
FirstExpected ==
  {c \in Expected : \A d \in Expected : <<d[1], d[2], d[3]>> = <<c[1], c[2], c[3]>>
                                         \/ Before(c, d)}

\* C30 (as the code has it): with only_extension set, every job run has
\* that extension name, whatever the letter case, and run_pipeline returns
\* after the first (browser, privacy level) in which the extension is
\* reached and has a package path: its links are run there and nowhere else
C30_OnlyExtensionFirstCombination ==
  args.only_extension # None =>
    /\ \A k \in DOMAIN ran :
         NameLower(ran[k].job.extension_name) = NameLower(args.only_extension)
    /\ RanAt \subseteq FirstExpected
    /\ rp.pc = "returned" => RanAt = FirstExpected

\* C30 (as stated): with only_extension set, every job run has that
\* extension name, and when run_pipeline returns the extension's links
\* have been run for every browser from the start browser on and every
\* privacy level of it where the extension has a package path
C30_OnlyExtensionEverywhere ==
  args.only_extension # None =>
    /\ \A k \in DOMAIN ran :
         NameLower(ran[k].job.extension_name) = NameLower(args.only_extension)
    /\ rp.pc = "returned" => RanAt = Expected

\* run_pipeline has returned after the links of the only extension in one
\* privacy level, with a later level and a later browser left
C30_Witness ==
  /\ rp.pc = "returned"
  /\ args.only_extension # None
  /\ Len(ran) = Len(Matrix.links)
  /\ \E c \in Expected \ RanAt : c[1] = ran[1].at[1] /\ c[2] > ran[1].at[2]
  /\ \E c \in Expected \ RanAt : c[1] > ran[1].at[1]

====
